---- MODULE Spec2Model ----
(***************************************************************************)
(* A model of the investment oracle of plan4res/Tools:                     *)
(* InvestmentFunction::compute with its feasibility gate, the locking of   *)
(* the inner Blocks, the parallel loop over the scenarios and the          *)
(* sub-Block slots, the handling of Modifications, the linearizations and  *)
(* the global pool of linearizations.                                      *)
(*                                                                         *)
(* Reals are modelled by integers.  +Inf is the integer Infty, NaN is the  *)
(* integer NaN; indices are 1-based, so that row i of the model is row     *)
(* i-1 of the code.                                                        *)
(***************************************************************************)
EXTENDS Integers, Sequences, FiniteSets, TLC

(***************************************************************************)
(* Bounds of the model.                                                    *)
(***************************************************************************)
NumScenarios == 2
MaxBlocks == 2
MaxX == 1
PoolSize == 3
MaxSummands == 2
MaxWeight == 2
MaxPoolOps == 3
MaxTolerance == 1

(***************************************************************************)
(* Numeric sentinels and program constants.                                *)
(***************************************************************************)
Infty == 1000000000
NaN == 2000000000
TolDen == 1000000
\* the accuracy of the multipliers is below the unit of the weights
AAccMlt == 0

(***************************************************************************)
(* The data of the InvestmentFunction: two assets, four linear             *)
(* constraints.  Row 4 has a large upper bound, so that a violation of 1   *)
(* is within the relative tolerance and a violation of 2 or more is not.   *)
(***************************************************************************)
v_cost == <<2, 3>>
v_disinvestment_cost == <<1, 4>>
v_installed_quantity == <<2, 0>>
v_lower_bound == <<1, -Infty>>
v_A == << <<1, 1>>, <<1, -1>>, <<1, 0>>, <<0, 1000001>> >>
v_constraints_lower_bound == <<1, 0, -Infty, -Infty>>
v_constraints_upper_bound == <<2, 1, 1, 1000000>>
v_upper_bound == <<3, Infty>>
v_asset_indices == <<0, 1>>
v_asset_type == <<"eUnitBlock", "eLine">>

NumVars == Len(v_cost)
NumRows == Len(v_A)
Vars == 1..NumVars
Rows == 1..NumRows
Scenarios == 1..NumScenarios
XValues == 0..MaxX

Abs(a) == IF a < 0 THEN -a ELSE a
Max(a, b) == IF a > b THEN a ELSE b

RECURSIVE SumTo(_, _)
SumTo(f, n) == IF n = 0 THEN 0 ELSE f[n] + SumTo(f, n - 1)

VARIABLES
  v_x, v_Block, solver_id, sense, active, investment_block,
  f_blocks_are_updated, f_status, f_value, f_has_value,
  f_has_diagonal_linearization, f_diagonal_linearization_required,
  f_compute_linearization, f_ignore_modifications, f_reformulated_bounds,
  f_violated_constraint, v_linearization, is_locked,
  linearization_constants, linearization_coefficients, is_diagonal,
  pc, owned, solver_ids, ub_saved, saved_f_ignore_modifications,
  interrupt_loop, simulation_value, spc, sres,
  last_op, exit_path, pre_owner, pool_op, pre_call, fired, v_events, driver

dataVars == <<v_x, v_Block, solver_id, sense, active, investment_block,
              v_events, driver,
              f_reformulated_bounds,
              f_compute_linearization>>
resultVars == <<f_blocks_are_updated, f_status, f_value, f_has_value,
                f_has_diagonal_linearization,
                f_diagonal_linearization_required, f_violated_constraint,
                v_linearization>>
poolVars == <<linearization_constants, linearization_coefficients,
              is_diagonal, pool_op>>
frameVars == <<pc, owned, solver_ids, ub_saved, saved_f_ignore_modifications,
               interrupt_loop, simulation_value, spc>>
histVars == <<sres, exit_path, pre_owner, pre_call, fired>>
vars == <<dataVars, resultVars, poolVars, frameVars, histVars, last_op,
          f_ignore_modifications, is_locked>>

(***************************************************************************)
(* Values of the variables and of the linear constraints.                  *)
(***************************************************************************)
VarValue(x, reformulated, i, actual) ==
  IF reformulated /\ ~actual /\ i <= Len(v_lower_bound)
     /\ v_lower_bound[i] > -Infty
  THEN x[i] + v_lower_bound[i]
  ELSE x[i]

get_var_value(i, actual) == VarValue(v_x, f_reformulated_bounds, i, actual)

get_installed_quantity(i) ==
  IF Len(v_installed_quantity) = 0 THEN 1 ELSE v_installed_quantity[i]

get_cost(i) == IF i <= Len(v_cost) THEN v_cost[i] ELSE 0

get_disinvestment_cost(i) ==
  IF i <= Len(v_disinvestment_cost) THEN v_disinvestment_cost[i] ELSE 0

worst_value == IF sense = "eMin" THEN Infty ELSE -Infty

compute_linear_constraint_value(i) ==
  SumTo([j \in Vars |-> v_A[i][j] * get_var_value(j, FALSE)], NumVars)

(***************************************************************************)
(* is_feasible: a violation v > 0 of a bound b is beyond the tolerance     *)
(* when v / max(1,|b|) > 1/TolDen, which for an integer v is               *)
(* v > max(1,|b|) \div TolDen.                                             *)
(***************************************************************************)
BeyondTolerance(violation, bound) ==
  violation > 0 /\ violation > Max(1, Abs(bound)) \div TolDen

LowerViolated(i) ==
  BeyondTolerance(v_constraints_lower_bound[i]
                    - compute_linear_constraint_value(i),
                  v_constraints_lower_bound[i])

UpperViolated(i) ==
  BeyondTolerance(compute_linear_constraint_value(i)
                    - v_constraints_upper_bound[i],
                  v_constraints_upper_bound[i])

NoViolation == [first |-> Infty, second |-> "eLHS"]

RECURSIVE ScanRows_last(_)
ScanRows_last(i) ==
  IF i > NumRows THEN NoViolation
  ELSE LET later == ScanRows_last(i + 1)
       IN IF later.first < Infty THEN later
          ELSE IF LowerViolated(i) THEN [first |-> i, second |-> "eLHS"]
          ELSE IF UpperViolated(i) THEN [first |-> i, second |-> "eRHS"]
          ELSE NoViolation

RECURSIVE ScanRows(_)
ScanRows(i) ==
  IF i > NumRows THEN NoViolation
  ELSE IF LowerViolated(i) THEN [first |-> i, second |-> "eLHS"]
  ELSE IF UpperViolated(i) THEN [first |-> i, second |-> "eRHS"]
  ELSE ScanRows(i + 1)

is_feasible_always(vc) == NoViolation

\* The pair that is_feasible() records when called with the pair vc already
\* recorded; first = Infty means that is_feasible() returns true
is_feasible(vc) == ScanRows(IF vc.first < Infty THEN vc.first + 1 ELSE 1)

(***************************************************************************)
(* The inner solver of a scenario: it ends with a primal solution, and     *)
(* then with the value and the contribution to the linearization of the    *)
(* scenario at the point x, or without a solution.  sres                   *)
(* records, for each scenario of the last compute(), the sub-Block it      *)
(* acquired (0: none) and what its solver and its update of the            *)
(* linearization did.                                                      *)
(***************************************************************************)
SolverValue(s) ==
  NumScenarios
    * (s + SumTo([j \in Vars |-> j * get_var_value(j, FALSE)], NumVars))
SolverGrad(s) == [j \in Vars |-> NumScenarios * (s + j)]
ZeroVector == [j \in Vars |-> 0]
NoResult == [slot |-> 0, solved |-> FALSE, has |-> FALSE, threw |-> FALSE,
             val |-> 0, grad |-> ZeroVector]

BlockIdx == 1..Len(v_Block)

(***************************************************************************)
(* The initial state: the state after construction, with the Blocks, the   *)
(* reformulation of the bounds and the sense of the objective that were    *)
(* configured.  f_value is not initialized by the constructor.             *)
(***************************************************************************)
\* The active Variables (named 1..NumVars) and the vectors indexed by them,
\* as constructed; removed records the last removal of Variables
NoRemoval == [op |-> "none", range |-> <<>>, indices |-> <<>>,
              thrown |-> FALSE, mod |-> [kind |-> "none"]]

ActiveVariables ==
  [v_x |-> [i \in Vars |-> i],
   v_asset_indices |-> v_asset_indices,
   v_asset_type |-> v_asset_type,
   v_cost |-> v_cost,
   v_disinvestment_cost |-> v_disinvestment_cost,
   v_A |-> v_A,
   removed |-> NoRemoval]

\* pre_call describes the call of compute that is running or has returned:
\* whether it directly follows another compute with no variable changed, and
\* what that compute had left
NoCall == [repeat |-> FALSE, exit_path |-> "none", f_status |-> "kUnEval",
           f_value |-> 0, v_linearization |-> <<>>]

\* fired records the handlers invoked by the last call of compute, with
\* the status and the value at that moment
NoFired == [invoked |-> <<>>, status |-> "none", value |-> 0,
            op |-> "none", ids |-> {}, thrown |-> FALSE, outcome |-> "ok"]

\* driver holds the data of the programs that drive the function (the
\* solvers of investment_solver.cpp and sddp_solver.cpp); it is not used by
\* the function itself
NoDriver == [op |-> "none"]

\* the handlers of eBeforeTermination that the solver has registered
Handlers == <<"h1", "h2">>

\* The InvestmentBlock after construction: its bounds, no BoxConstraint
\* generated yet; checked records the last call to its is_feasible
NotChecked == [done |-> FALSE, useabstract |-> FALSE, tolerance |-> 0,
               result |-> FALSE]

InvestmentBlock(lower, upper) ==
  [v_lower_bound |-> lower, v_upper_bound |-> upper,
   f_reformulate_bounds |-> FALSE, v_constraints |-> <<>>,
   checked |-> NotChecked]

InitLocals ==
  /\ owned = [i \in BlockIdx |-> FALSE]
  /\ solver_ids = [i \in BlockIdx |-> "Solver"]
  /\ ub_saved = FALSE
  /\ saved_f_ignore_modifications = FALSE
  /\ interrupt_loop = FALSE
  /\ simulation_value = 0
  /\ spc = [s \in Scenarios |-> "done"]

InitOracle ==
  /\ v_x \in [Vars -> XValues]
  /\ solver_id = [i \in BlockIdx |-> "Solver"]
  /\ f_blocks_are_updated = FALSE
  /\ f_status = "kUnEval"
  /\ f_value \in {0, Infty}
  /\ f_has_value = FALSE
  /\ f_has_diagonal_linearization = FALSE
  /\ f_diagonal_linearization_required = FALSE
  /\ f_compute_linearization = TRUE
  /\ f_ignore_modifications = FALSE
  /\ f_violated_constraint = NoViolation
  /\ v_linearization = ZeroVector
  /\ is_locked = <<>>
  /\ pc = "idle"
  /\ InitLocals
  /\ sres = [s \in Scenarios |-> NoResult]
  /\ last_op = "init"
  /\ exit_path = "none"
  /\ pre_owner = v_Block
  /\ pre_call = NoCall
  /\ fired = NoFired
  /\ active = ActiveVariables

\* pool_op records the last operation on the global pool, the number of
\* operations so far and the content of the pool before the operation
NoPoolOp == [op |-> "none", count |-> 0, L |-> <<>>, name |-> 0,
             constants |-> <<>>, coefficients |-> <<>>]

\* GlobalPool::resize( PoolSize ) on the empty pool
InitPoolEmpty ==
  /\ linearization_constants = [n \in 1..PoolSize |-> NaN]
  /\ linearization_coefficients = [n \in 1..PoolSize |-> <<>>]
  /\ is_diagonal = [n \in 1..PoolSize |-> FALSE]
  /\ pool_op = NoPoolOp

Init ==
  /\ \E k \in 1..MaxBlocks : v_Block = [i \in 1..k |-> "None"]
  /\ sense \in {"eMin", "eMax"}
  /\ f_reformulated_bounds \in BOOLEAN
  /\ InitOracle
  /\ InitPoolEmpty
  /\ investment_block = InvestmentBlock(v_lower_bound, v_upper_bound)
  /\ v_events = Handlers
  /\ driver = NoDriver

(***************************************************************************)
(* compute(): from the call to the first point where other threads or      *)
(* Modifications can interleave (lines 963-1022, and the start of          *)
(* update_blocks).                                                         *)
(***************************************************************************)
locals == <<owned, solver_ids, ub_saved, saved_f_ignore_modifications,
            interrupt_loop, simulation_value, spc>>

\* compute() returns: its local variables go out of scope
\* lines 505-508: the handlers that handle_events invokes, in order
handle_events_twice(events) == events \o events

handle_events(events) == events

\* every return of compute: the handlers of eBeforeTermination are invoked
\* with the status and the value that the call has set, and compute returns
Return(path) ==
  /\ pc' = "idle"
  /\ exit_path' = path
  /\ fired' = [NoFired EXCEPT !.invoked = handle_events(v_events),
                              !.status = f_status', !.value = f_value']
  /\ last_op' = "compute"
  /\ owned' = [i \in BlockIdx |-> FALSE]
  /\ solver_ids' = [i \in BlockIdx |-> "Solver"]
  /\ ub_saved' = FALSE
  /\ saved_f_ignore_modifications' = FALSE
  /\ interrupt_loop' = FALSE
  /\ simulation_value' = 0
  /\ spc' = [s \in Scenarios |-> "done"]

\* lines 1048-1064: the state at the entry of the loop over the scenarios
EnterLoop(ignore_now) ==
  /\ f_value' = 0
  /\ saved_f_ignore_modifications' = ignore_now
  /\ f_ignore_modifications' = TRUE
  /\ f_status' = "kUnEval"
  /\ interrupt_loop' = FALSE
  /\ simulation_value' = 0
  /\ spc' = [s \in Scenarios |-> "start"]
  /\ pc' = "loop"

HasOther == \E i \in BlockIdx : v_Block[i] = "Other"
FirstOther ==
  CHOOSE i \in BlockIdx :
    v_Block[i] = "Other" /\ \A j \in 1..(i - 1) : v_Block[j] # "Other"

\* lines 996-1008: the Blocks are locked in order; the first Block owned by
\* another entity makes compute() return
LockInnerBlocks ==
  IF HasOther
  THEN [i \in BlockIdx |-> IF i < FirstOther THEN "Fid" ELSE v_Block[i]]
  ELSE [i \in BlockIdx |-> "Fid"]

NothingChanged_never(changedvars) == FALSE

\* line 965: nothing changed since the last call
NothingChanged(changedvars) == ~changedvars /\ f_blocks_are_updated

\* The master sets the variables to x (InvestmentBlock::set_variable_values)
\* and calls compute( changedvars ), with changedvars true if x is a new point
compute_call(x, changedvars) ==
  /\ pc = "idle"
  /\ x # v_x => changedvars
  /\ v_x' = x
  /\ UNCHANGED <<sense, active, investment_block,
                 v_events, driver, f_reformulated_bounds,
                 f_compute_linearization,
                 poolVars, is_locked, f_diagonal_linearization_required,
                 f_blocks_are_updated>>
  /\ pre_owner' = v_Block
  /\ pre_call' = IF last_op = "compute" /\ ~changedvars
                  THEN [repeat |-> TRUE, exit_path |-> exit_path,
                        f_status |-> f_status, f_value |-> f_value,
                        v_linearization |-> v_linearization]
                  ELSE NoCall
  /\ sres' = [s \in Scenarios |-> NoResult]
  /\ IF NothingChanged(changedvars)
     THEN \* nothing changed since last call
          /\ UNCHANGED <<v_Block, solver_id, f_status, f_value, f_has_value,
                         f_has_diagonal_linearization, f_violated_constraint,
                         v_linearization, f_ignore_modifications>>
          /\ Return("cached")
     ELSE
       \* is_feasible() at the point that was just set
       LET vc == is_feasible(NoViolation)' IN
       /\ v_linearization' = ZeroVector
       /\ f_has_diagonal_linearization' = FALSE
       /\ f_violated_constraint' = vc
       /\ IF vc.first < Infty
          THEN \* the linear constraints are not satisfied
               /\ f_has_value' = TRUE
               /\ f_value' = worst_value
               /\ f_status' = "kOK"
               /\ Return("infeasible")
               /\ UNCHANGED <<v_Block, solver_id, f_ignore_modifications>>
          ELSE
            /\ f_has_value' = FALSE
            /\ v_Block' = LockInnerBlocks
            /\ IF HasOther
               THEN \* a Block could not be locked
                    /\ f_value' = worst_value
                    /\ f_status' = "kError"
                    /\ Return("lockfail")
                    /\ UNCHANGED <<solver_id, f_ignore_modifications>>
               ELSE
                 /\ owned' = [i \in BlockIdx |-> v_Block[i] = "Fid"]
                 /\ solver_ids' = solver_id
                 /\ solver_id' = [i \in BlockIdx |-> "Fid"]
                 /\ last_op' = "compute"
                 /\ exit_path' = "running"
                 /\ fired' = NoFired
                 /\ IF changedvars \/ ~f_blocks_are_updated
                    THEN \* update_blocks() starts
                         /\ ub_saved' = f_ignore_modifications
                         /\ f_ignore_modifications' = TRUE
                         /\ pc' = "updating"
                         /\ UNCHANGED <<f_value, f_status,
                                        saved_f_ignore_modifications,
                                        interrupt_loop, simulation_value,
                                        spc>>
                    ELSE /\ EnterLoop(f_ignore_modifications)
                         /\ UNCHANGED ub_saved

\* lines 1128-1136, 1183-1188 and 1032-1037: the identities of the solvers
\* are restored and the Blocks that compute() locked are unlocked
RestoreSolverIds == solver_ids
UnlockInnerBlocks ==
  [i \in BlockIdx |-> IF owned[i] THEN v_Block[i] ELSE "None"]

\* update_blocks() ends: normally, or with an exception (lines 1027-1046)
update_blocks_end(throws) ==
  /\ pc = "updating"
  /\ UNCHANGED <<v_x, sense, active, investment_block,
                 v_events, driver, f_reformulated_bounds,
                 f_compute_linearization,
                 poolVars, is_locked, sres, pre_owner, pre_call,
                 f_has_value, f_has_diagonal_linearization,
                 f_diagonal_linearization_required, f_violated_constraint,
                 v_linearization>>
  /\ IF throws
     THEN /\ solver_id' = RestoreSolverIds
          /\ v_Block' = UnlockInnerBlocks
          /\ f_value' = worst_value
          /\ f_status' = "kError"
          /\ Return("updexc")
          /\ UNCHANGED <<f_blocks_are_updated, f_ignore_modifications>>
     ELSE /\ f_blocks_are_updated' = TRUE
          /\ EnterLoop(ub_saved)
          /\ UNCHANGED <<v_Block, solver_id, last_op, exit_path, fired, owned,
                         solver_ids, ub_saved>>

(***************************************************************************)
(* The loop over the scenarios (lines 1066-1122).  Each scenario is one    *)
(* iteration of the parallel loop; iterations interleave at the critical   *)
(* sections and at the calls to the inner solver.                          *)
(***************************************************************************)
InLoop(s, at) == pc = "loop" /\ spc[s] = at

FirstFree_unguarded(locked) == IF Len(locked) > 0 THEN 1 ELSE 0

\* lines 2621-2627: the first sub-Block that is not locked (0: there is none)
FirstFree(locked) ==
  IF \E i \in 1..Len(locked) : ~locked[i]
  THEN CHOOSE i \in 1..Len(locked) :
         ~locked[i] /\ \A j \in 1..(i - 1) : locked[j]
  ELSE 0

\* lines 2616-2628: one pass of the critical section of lock_sub_block() by
\* scenario s, which then solves (a sub-Block was found) or sleeps
LockPass(s) ==
  LET locked == IF Len(is_locked) = 0
                THEN [i \in BlockIdx |-> FALSE]
                ELSE is_locked
      i == FirstFree(locked)
  IN IF i > 0
     THEN /\ is_locked' = [locked EXCEPT ![i] = TRUE]
          /\ sres' = [sres EXCEPT ![s].slot = i]
          /\ spc' = [spc EXCEPT ![s] = "solve"]
     ELSE /\ is_locked' = locked
          /\ spc' = [spc EXCEPT ![s] = "sleep"]
          /\ UNCHANGED sres

\* lines 1069-1072.  interrupt_loop is read outside any critical section, so
\* an iteration may still see the value it had before another thread set it
scenario_start(s) ==
  /\ InLoop(s, "start")
  /\ \E seen \in (IF interrupt_loop THEN BOOLEAN ELSE {FALSE}) :
       IF seen
       THEN /\ spc' = [spc EXCEPT ![s] = "done"]
            /\ UNCHANGED <<is_locked, sres>>
       ELSE LockPass(s)
  /\ UNCHANGED <<dataVars, resultVars, poolVars, last_op,
                 exit_path, fired, pre_owner, pre_call, owned, solver_ids, ub_saved,
                 saved_f_ignore_modifications, interrupt_loop,
                 simulation_value, pc, f_ignore_modifications>>

\* lock_sub_block(): after the sleep, the next pass that finds a sub-Block
lock_sub_block_retry(s) ==
  /\ InLoop(s, "sleep")
  /\ FirstFree(is_locked) > 0
  /\ LockPass(s)
  /\ UNCHANGED <<dataVars, resultVars, poolVars, last_op,
                 exit_path, fired, pre_owner, pre_call, owned, solver_ids, ub_saved,
                 saved_f_ignore_modifications, interrupt_loop,
                 simulation_value, pc, f_ignore_modifications>>

unlock_sub_block_skipped(locked, i) == locked

\* lines 2642-2647
unlock_sub_block(locked, i) == [locked EXCEPT ![i] = FALSE]

\* lines 1073-1085: the inner solver of the sub-Block computes the scenario;
\* without a primal solution the sub-Block is unlocked
solver_compute(s, has) ==
  /\ InLoop(s, "solve")
  /\ sres' = [sres EXCEPT ![s].solved = TRUE, ![s].has = has,
                          ![s].val = IF has THEN SolverValue(s) ELSE 0,
                          ![s].grad = IF has THEN SolverGrad(s)
                                      ELSE ZeroVector]
  /\ is_locked' = IF has THEN is_locked
                  ELSE unlock_sub_block(is_locked, sres[s].slot)
  /\ spc' = [spc EXCEPT ![s] = IF has THEN "update" ELSE "flag"]
  /\ UNCHANGED <<dataVars, resultVars, poolVars, last_op,
                 exit_path, fired, pre_owner, pre_call, owned, solver_ids, ub_saved,
                 saved_f_ignore_modifications, interrupt_loop,
                 simulation_value, pc, f_ignore_modifications>>

\* line 1099: the sub-Block is unlocked after the exception
release_after_exception(s) ==
  /\ InLoop(s, "release")
  /\ is_locked' = unlock_sub_block(is_locked, sres[s].slot)
  /\ spc' = [spc EXCEPT ![s] = "flag"]
  /\ UNCHANGED <<dataVars, resultVars, poolVars, last_op,
                 exit_path, fired, pre_owner, pre_call, owned, solver_ids, ub_saved,
                 saved_f_ignore_modifications, interrupt_loop,
                 simulation_value, sres, pc, f_ignore_modifications>>

\* lines 1079-1084 and 1100-1105: the loop is interrupted
set_interrupt_loop(s) ==
  /\ InLoop(s, "flag")
  /\ interrupt_loop' = TRUE
  /\ spc' = [spc EXCEPT ![s] = "done"]
  /\ UNCHANGED <<dataVars, resultVars, poolVars, last_op,
                 exit_path, fired, pre_owner, pre_call, owned, solver_ids, ub_saved,
                 saved_f_ignore_modifications, simulation_value, sres, pc,
                 f_ignore_modifications, is_locked>>

\* update_linearization(): the contribution g of a scenario is added to the
\* first k components (k < NumVars: an exception interrupted the update)
AddContribution(lin, g, k) ==
  [j \in Vars |-> IF j <= k THEN lin[j] + g[j] ELSE lin[j]]

\* lines 1087-1106: the critical section that updates the linearization
update_linearization(s, throws, k) ==
  /\ InLoop(s, "update")
  /\ throws => f_compute_linearization /\ k < NumVars
  /\ ~throws => k = NumVars
  /\ f_status' = "kOK"
  /\ v_linearization' = IF f_compute_linearization
                        THEN AddContribution(v_linearization, sres[s].grad, k)
                        ELSE v_linearization
  /\ sres' = [sres EXCEPT ![s].threw = throws]
  /\ spc' = [spc EXCEPT ![s] = IF throws THEN "release" ELSE "finish"]
  /\ UNCHANGED <<dataVars, poolVars, last_op, exit_path, fired,
                 pre_owner, pre_call, owned, solver_ids, ub_saved,
                 saved_f_ignore_modifications, interrupt_loop,
                 simulation_value, pc, f_ignore_modifications, is_locked,
                 f_blocks_are_updated, f_value, f_has_value,
                 f_has_diagonal_linearization,
                 f_diagonal_linearization_required, f_violated_constraint>>

Accumulate_overwrite(sum, v) == v

\* line 1110: the reduction over the values of the scenarios
Accumulate(sum, v) == sum + v

\* lines 1110-1120: the value is accumulated and the sub-Block is unlocked
scenario_finish(s) ==
  /\ InLoop(s, "finish")
  /\ simulation_value' = Accumulate(simulation_value, sres[s].val)
  /\ is_locked' = unlock_sub_block(is_locked, sres[s].slot)
  /\ spc' = [spc EXCEPT ![s] = "done"]
  /\ UNCHANGED <<dataVars, resultVars, poolVars, last_op,
                 exit_path, fired, pre_owner, pre_call, owned, solver_ids, ub_saved,
                 saved_f_ignore_modifications, interrupt_loop, sres, pc,
                 f_ignore_modifications>>

(***************************************************************************)
(* The end of compute() (lines 1124-1199).                                 *)
(***************************************************************************)
\* lines 1151-1157: the expectation over the scenarios
Expectation(sum) == sum \div NumScenarios

Invests_or_keeps(i) == get_var_value(i, FALSE) >= get_installed_quantity(i)

\* line 1168: an investment is being made in asset i
Invests(i) == get_var_value(i, FALSE) > get_installed_quantity(i)

\* lines 1161-1180: the linear term of the objective
LinearValue(i) ==
  IF Invests(i)
  THEN get_cost(i) * (get_var_value(i, FALSE) - get_installed_quantity(i))
  ELSE get_disinvestment_cost(i)
         * (get_installed_quantity(i) - get_var_value(i, FALSE))

LinearSlope(i) ==
  IF Invests(i) THEN get_cost(i) ELSE -get_disinvestment_cost(i)

\* lines 1128-1136: every sub-Block is unlocked locally
UnlockAll(locked) == [i \in 1..Len(locked) |-> FALSE]

\* lines 1124-1143: the loop was interrupted
InterruptedReturn ==
  /\ solver_id' = RestoreSolverIds
  /\ v_Block' = UnlockInnerBlocks
  /\ is_locked' = UnlockAll(is_locked)
  /\ f_status' = "kError"
  /\ f_value' = worst_value
  /\ Return("interrupt")
  /\ UNCHANGED <<f_ignore_modifications, v_linearization, f_has_value,
                 f_has_diagonal_linearization>>

\* lines 1145-1199: the value and the linearization are published
NormalReturn ==
  /\ f_value' = Expectation(simulation_value)
                  + SumTo([i \in Vars |-> LinearValue(i)], NumVars)
  /\ f_ignore_modifications' = saved_f_ignore_modifications
  /\ v_linearization' =
       [i \in Vars |-> Expectation(v_linearization[i]) + LinearSlope(i)]
  /\ solver_id' = RestoreSolverIds
  /\ v_Block' = UnlockInnerBlocks
  /\ f_has_diagonal_linearization' = f_compute_linearization
  /\ f_has_value' = TRUE
  /\ f_status' = "kOK"
  /\ Return("ok")
  /\ UNCHANGED is_locked

loop_end_uninterrupted ==
  /\ pc = "loop"
  /\ \A s \in Scenarios : spc[s] = "done"
  /\ NormalReturn
  /\ UNCHANGED <<v_x, sense, active, investment_block,
                 v_events, driver, f_reformulated_bounds,
                 f_compute_linearization,
                 poolVars, sres, pre_owner, pre_call,
                 f_blocks_are_updated,
                 f_diagonal_linearization_required, f_violated_constraint>>

loop_end ==
  /\ pc = "loop"
  /\ \A s \in Scenarios : spc[s] = "done"
  /\ IF interrupt_loop THEN InterruptedReturn ELSE NormalReturn
  /\ UNCHANGED <<v_x, sense, active, investment_block,
                 v_events, driver, f_reformulated_bounds,
                 f_compute_linearization,
                 poolVars, sres, pre_owner, pre_call,
                 f_blocks_are_updated,
                 f_diagonal_linearization_required, f_violated_constraint>>

(***************************************************************************)
(* Modifications.                                                          *)
(***************************************************************************)
\* the record of the scenarios of the last compute() is kept until the next
\* operation
ForgetScenarios ==
  /\ sres' = [s \in Scenarios |-> NoResult]
  /\ pre_owner' = v_Block
  /\ pre_call' = NoCall

\* the path of the last compute() is kept until the next operation that is
\* not a question about its result
Forget ==
  /\ ForgetScenarios
  /\ exit_path' = "none"
  /\ fired' = NoFired

\* GlobalPool::invalidate (InvestmentFunction.h, line 1872)
invalidate(constants) == [n \in 1..Len(constants) |-> NaN]

\* compute() is inside update_blocks() or inside an inner solver, which
\* modify the inner Blocks
ComputeIsCalling ==
  \/ pc = "updating"
  \/ pc = "loop" /\ \E s \in Scenarios : spc[s] = "solve"

\* A Modification arrives: from outside when no compute() is running, from
\* the inner Blocks while compute() is running
add_Modification ==
  /\ pc = "idle" \/ ComputeIsCalling
  /\ last_op' = IF pc = "idle" THEN "mod_idle" ELSE last_op
  /\ IF f_ignore_modifications
     THEN UNCHANGED <<linearization_constants, f_blocks_are_updated>>
     ELSE \* send_nuclear_modification
          /\ linearization_constants' = invalidate(linearization_constants)
          /\ f_blocks_are_updated' = FALSE
  /\ IF pc = "idle" THEN Forget ELSE UNCHANGED histVars
  /\ UNCHANGED <<dataVars, frameVars,
                 f_ignore_modifications, is_locked, pool_op,
                 linearization_coefficients, is_diagonal, f_status, f_value,
                 f_has_value, f_has_diagonal_linearization,
                 f_diagonal_linearization_required, f_violated_constraint,
                 v_linearization>>

(***************************************************************************)
(* The operations of the master between two calls to compute().            *)
(***************************************************************************)
set_par_ComputeLinearization(value) ==
  /\ pc = "idle"
  /\ value # f_compute_linearization
  /\ f_compute_linearization' = value
  /\ last_op' = "set_par"
  /\ Forget
  /\ UNCHANGED <<v_x, v_Block, solver_id, sense, active, investment_block,
                 v_events, driver, f_reformulated_bounds,
                 resultVars, poolVars, frameVars,
                 f_ignore_modifications, is_locked>>

VerticalCoefficients_unsigned(vc) == [j \in Vars |-> v_A[vc.first][j]]

\* lines 1249-1252: the coefficients of the vertical linearization
VerticalCoefficients(vc) ==
  [j \in Vars |-> (IF vc.second = "eLHS" THEN -1 ELSE 1) * v_A[vc.first][j]]

has_linearization(diagonal) ==
  /\ pc = "idle"
  /\ f_diagonal_linearization_required' = diagonal
  /\ v_linearization' =
       IF ~diagonal /\ f_violated_constraint.first < Infty
       THEN VerticalCoefficients(f_violated_constraint)
       ELSE v_linearization
  /\ last_op' = "has_linearization"
  /\ ForgetScenarios
  /\ UNCHANGED <<dataVars, poolVars, frameVars, exit_path, fired,
                 f_ignore_modifications, is_locked,
                 f_blocks_are_updated, f_status, f_value, f_has_value,
                 f_has_diagonal_linearization, f_violated_constraint>>

\* what has_linearization returned for the kind that was last asked for
LinearizationAvailable_always ==
  f_diagonal_linearization_required \/ f_violated_constraint.first < Infty

LinearizationAvailable ==
  IF f_diagonal_linearization_required
  THEN f_has_diagonal_linearization
  ELSE f_violated_constraint.first < Infty

compute_new_linearization(diagonal) ==
  /\ pc = "idle"
  /\ f_violated_constraint' =
       IF diagonal THEN f_violated_constraint
       ELSE LET vc == is_feasible(f_violated_constraint)
            IN IF vc.first < Infty THEN vc ELSE f_violated_constraint
  /\ last_op' = "compute_new_linearization"
  /\ Forget
  /\ UNCHANGED <<dataVars, poolVars, frameVars,
                 f_ignore_modifications, is_locked,
                 f_blocks_are_updated, f_status, f_value, f_has_value,
                 f_has_diagonal_linearization,
                 f_diagonal_linearization_required, v_linearization>>

LinearizationConstant_external(x, reformulated, diagonal, value, lin, vc) ==
  IF diagonal
  THEN value - SumTo([i \in Vars |->
                        lin[i] * VarValue(x, reformulated, i, FALSE)], NumVars)
  ELSE LET i == vc.first
       IN IF vc.second = "eLHS"
          THEN v_constraints_lower_bound[i]
          ELSE -v_constraints_upper_bound[i]

\* get_linearization_constant( Inf ) for the point x, the value and the
\* linearization given
LinearizationConstant(x, reformulated, diagonal, value, lin, vc) ==
  IF diagonal
  THEN value - SumTo([i \in Vars |->
                        lin[i] * VarValue(x, reformulated, i, TRUE)], NumVars)
  ELSE LET i == vc.first
           alpha == IF reformulated
                    THEN SumTo([j \in Vars |->
                                  IF j <= Len(v_lower_bound)
                                     /\ v_lower_bound[j] > -Infty
                                  THEN v_A[i][j] * v_lower_bound[j]
                                  ELSE 0], NumVars)
                    ELSE 0
       IN IF vc.second = "eLHS"
          THEN v_constraints_lower_bound[i] - alpha
          ELSE alpha - v_constraints_upper_bound[i]

get_linearization_constant ==
  LinearizationConstant(v_x, f_reformulated_bounds,
                        f_diagonal_linearization_required, f_value,
                        v_linearization, f_violated_constraint)

get_value == IF f_has_value THEN f_value ELSE worst_value

\* lines 1270-1288: the linearization that has_linearization() made
\* available is stored in the global pool
store_linearization(name) ==
  /\ pc = "idle"
  /\ LinearizationAvailable
  /\ name \in 1..Len(linearization_constants)
  /\ linearization_coefficients' =
       [linearization_coefficients EXCEPT ![name] = v_linearization]
  /\ linearization_constants' =
       [linearization_constants EXCEPT ![name] = get_linearization_constant]
  /\ is_diagonal' =
       [is_diagonal EXCEPT ![name] = f_diagonal_linearization_required]
  /\ last_op' = "store_linearization"
  /\ Forget
  /\ UNCHANGED <<dataVars, resultVars, frameVars, pool_op,
                 f_ignore_modifications, is_locked>>

Next ==
  \/ \E x \in [Vars -> XValues], cv \in BOOLEAN : compute_call(x, cv)
  \/ \E throws \in BOOLEAN : update_blocks_end(throws)
  \/ \E s \in Scenarios : scenario_start(s)
  \/ \E s \in Scenarios : lock_sub_block_retry(s)
  \/ \E s \in Scenarios, has \in BOOLEAN : solver_compute(s, has)
  \/ \E s \in Scenarios : release_after_exception(s)
  \/ \E s \in Scenarios : set_interrupt_loop(s)
  \/ \E s \in Scenarios, throws \in BOOLEAN, k \in 0..NumVars :
       update_linearization(s, throws, k)
  \/ \E s \in Scenarios : scenario_finish(s)
  \/ loop_end
  \/ add_Modification
  \/ \E value \in BOOLEAN : set_par_ComputeLinearization(value)
  \/ \E diagonal \in BOOLEAN : has_linearization(diagonal)
  \/ \E diagonal \in BOOLEAN : compute_new_linearization(diagonal)

Spec == Init /\ [][Next]_vars

(***************************************************************************)
(* The oracle with its Blocks owned by anyone: a Block is free ("None"),   *)
(* owned by the caller with the identity of the function ("Fid") or owned  *)
(* by another entity ("Other").                                            *)
(***************************************************************************)
InitOwn ==
  /\ \E k \in 1..MaxBlocks : v_Block \in [1..k -> {"None", "Fid", "Other"}]
  /\ sense = "eMin"
  /\ f_reformulated_bounds = FALSE
  /\ InitOracle
  /\ InitPoolEmpty
  /\ investment_block = InvestmentBlock(v_lower_bound, v_upper_bound)
  /\ v_events = Handlers
  /\ driver = NoDriver

SpecOwn == InitOwn /\ [][Next]_vars

(***************************************************************************)
(* The oracle with one Block, whose linearizations are stored in the pool  *)
(* under the first name.                                                   *)
(***************************************************************************)
InitMod ==
  /\ v_Block = <<"None">>
  /\ sense = "eMin"
  /\ f_reformulated_bounds = FALSE
  /\ InitOracle
  /\ InitPoolEmpty
  /\ investment_block = InvestmentBlock(v_lower_bound, v_upper_bound)
  /\ v_events = Handlers
  /\ driver = NoDriver

NextMod ==
  \/ Next
  \/ store_linearization(1)

SpecMod == InitMod /\ [][NextMod]_vars

(***************************************************************************)
(* The global pool alone: linearizations are stored and combined.          *)
(***************************************************************************)
Pool == [constants |-> linearization_constants,
         coefficients |-> linearization_coefficients,
         diagonal |-> is_diagonal]

SetPool(pool) ==
  /\ linearization_constants' = pool.constants
  /\ linearization_coefficients' = pool.coefficients
  /\ is_diagonal' = pool.diagonal

\* lines 2700-2709
store(pool, constant, coefficients, name, diagonal) ==
  [constants |-> [pool.constants EXCEPT ![name] = constant],
   coefficients |-> [pool.coefficients EXCEPT ![name] = coefficients],
   diagonal |-> [pool.diagonal EXCEPT ![name] = diagonal]]

is_linearization_there_valid(pool, name) == name <= Len(pool.constants)

\* lines 2713-2719
is_linearization_there(pool, name) ==
  name <= Len(pool.constants) /\ pool.constants[name] # NaN

is_linearization_vertical_stored(pool, name) == ~pool.diagonal[name]

\* lines 2723-2729
is_linearization_vertical(pool, name) ==
  IF name > Len(pool.constants) \/ pool.constants[name] = NaN
  THEN FALSE
  ELSE ~pool.diagonal[name]

\* lines 2773-2778: one summand of the combination
CombineStep(acc, lin, coeff) ==
  IF Len(acc) = 0
  THEN [j \in 1..Len(lin) |-> 0]
  ELSE [j \in 1..Len(acc) |-> acc[j] + coeff * lin[j]]

\* lines 2760-2786: the loop over the first k summands of L
RECURSIVE CombinedCoefficients(_, _, _)
CombinedCoefficients(pool, L, k) ==
  IF k = 0 THEN <<>>
  ELSE CombineStep(CombinedCoefficients(pool, L, k - 1),
                   pool.coefficients[L[k].name], L[k].weight)

RECURSIVE CombinedConstant(_, _, _)
CombinedConstant(pool, L, k) ==
  IF k = 0 THEN 0
  ELSE LET sum == CombinedConstant(pool, L, k - 1)
           constant == pool.constants[L[k].name]
       IN IF sum = NaN \/ constant = NaN
          THEN NaN
          ELSE sum + L[k].weight * constant

RECURSIVE CoeffSumDiagonal(_, _, _)
CoeffSumDiagonal(pool, L, k) ==
  IF k = 0 THEN 0
  ELSE CoeffSumDiagonal(pool, L, k - 1)
         + (IF pool.diagonal[L[k].name] THEN L[k].weight ELSE 0)

AnyDiagonal(pool, L) == \E k \in 1..Len(L) : pool.diagonal[L[k].name]

CombinationThrows_negative(pool, L) ==
  \E k \in 1..Len(L) : L[k].weight < -AAccMlt

\* lines 2764-2770 and 2788-2795: the combination is refused
CombinationThrows(pool, L) ==
  \/ \E k \in 1..Len(L) : L[k].weight < -AAccMlt
  \/ /\ AnyDiagonal(pool, L)
     /\ Abs(1 - CoeffSumDiagonal(pool, L, Len(L))) > AAccMlt * Len(L)

PoolOp(op, L, name) ==
  [op |-> op, count |-> pool_op.count + 1, L |-> L, name |-> name,
   constants |-> linearization_constants,
   coefficients |-> linearization_coefficients]

\* the linearizations of the function that are stored
StoredLinearizations ==
  {[constant |-> 1, coefficients |-> <<1, 0>>],
   [constant |-> 2, coefficients |-> <<0, 1>>]}
Weights == 0..MaxWeight
Summands == [name : 1..PoolSize, weight : Weights]
Combinations ==
  UNION {[1..n -> Summands] : n \in 1..MaxSummands}

\* GlobalPool::store with a linearization of the function
GlobalPool_store(constant, coefficients, name, diagonal) ==
  /\ pc = "idle"
  /\ pool_op.count < MaxPoolOps
  /\ SetPool(store(Pool, constant, coefficients, name, diagonal))
  /\ pool_op' = PoolOp("store", <<>>, name)
  /\ UNCHANGED <<dataVars, resultVars, frameVars, histVars, last_op,
                 f_ignore_modifications, is_locked>>

\* lines 1292-1307 and 2733-2799, for a combination L of linearizations that
\* are in the pool
store_combination_of_linearizations(L, name) ==
  /\ pc = "idle"
  /\ pool_op.count < MaxPoolOps
  /\ \A k \in 1..Len(L) : is_linearization_there(Pool, L[k].name)
  /\ IF CombinationThrows(Pool, L)
     THEN /\ UNCHANGED <<linearization_constants,
                         linearization_coefficients, is_diagonal>>
          /\ pool_op' = PoolOp("combine_failed", L, name)
     ELSE /\ SetPool(store(Pool, CombinedConstant(Pool, L, Len(L)),
                           CombinedCoefficients(Pool, L, Len(L)), name,
                           AnyDiagonal(Pool, L)))
          /\ pool_op' = PoolOp("combine", L, name)
  /\ UNCHANGED <<dataVars, resultVars, frameVars, histVars, last_op,
                 f_ignore_modifications, is_locked>>

InitPool ==
  /\ v_Block = <<"None">>
  /\ sense = "eMin"
  /\ f_reformulated_bounds = FALSE
  /\ InitOracle
  /\ InitPoolEmpty
  /\ investment_block = InvestmentBlock(v_lower_bound, v_upper_bound)
  /\ v_events = Handlers
  /\ driver = NoDriver

NextPool ==
  \/ \E lin \in StoredLinearizations, name \in 1..PoolSize,
        diagonal \in BOOLEAN :
       GlobalPool_store(lin.constant, lin.coefficients, name, diagonal)
  \/ \E L \in Combinations, name \in 1..PoolSize :
       store_combination_of_linearizations(L, name)

SpecPool == InitPool /\ [][NextPool]_vars

(***************************************************************************)
(* The operations of the function on its global pool, with the Observer    *)
(* that receives the Modifications.  Names are counted from 1: a name is   *)
(* valid when it is at most the size of the pool.  pool_op describes the   *)
(* last operation: its arguments, the pool before it, whether it threw,    *)
(* the Modification it issued and the data it returned.                    *)
(***************************************************************************)
size == Len(linearization_constants)

NoMod == [kind |-> "none", names |-> <<>>]

C05FunctionMod(kind, names) ==
  IF pool_op.observer THEN [kind |-> kind, names |-> names] ELSE NoMod

\* the record of an operation that returns normally without issuing anything
Call(op, name) ==
  [pool_op EXCEPT !.op = op, !.L = <<>>, !.name = name, !.which = <<>>,
                  !.constants = linearization_constants,
                  !.coefficients = linearization_coefficients,
                  !.diagonal = is_diagonal,
                  !.thrown = FALSE, !.outcome = "ok", !.mod = NoMod,
                  !.data = <<>>]

\* the operation changed the pool
Changed(call) == [call EXCEPT !.count = @ + 1]

\* std::invalid_argument is thrown
Throw(call) == [call EXCEPT !.thrown = TRUE, !.outcome = "throw"]

\* the operation read outside of a vector: the process is aborted, or what
\* was read is used
Abort(call) == [call EXCEPT !.outcome = "abort", !.ub = TRUE]

Undefined(call) == [call EXCEPT !.outcome = "undefined", !.ub = TRUE]

UndefinedValues == {0, NaN, Infty}

Running == pc = "idle" /\ pool_op.outcome # "abort"

\* lines 2692-2696
resize(pool, n) ==
  [constants |-> [k \in 1..n |-> IF k <= Len(pool.constants)
                                 THEN pool.constants[k] ELSE NaN],
   coefficients |-> [k \in 1..n |-> IF k <= Len(pool.coefficients)
                                    THEN pool.coefficients[k] ELSE <<>>],
   diagonal |-> [k \in 1..n |-> IF k <= Len(pool.diagonal)
                                THEN pool.diagonal[k] ELSE FALSE]]

\* lines 2803-2811
delete_linearization(pool, name) ==
  [constants |-> [pool.constants EXCEPT ![name] = NaN],
   coefficients |-> [pool.coefficients EXCEPT ![name] = <<>>],
   diagonal |-> pool.diagonal]

\* lines 2815-2834: the loop over the names to delete
RECURSIVE delete_linearizations(_, _, _)
delete_linearizations(pool, which, k) ==
  IF k = 0 THEN pool
  ELSE LET done == delete_linearizations(pool, which, k - 1)
       IN IF is_linearization_there(done, which[k])
          THEN delete_linearization(done, which[k])
          ELSE done

\* InvestmentFunction.h lines 1871-1873
GlobalPool_invalidate(pool) ==
  [constants |-> [k \in 1..Len(pool.constants) |-> NaN],
   coefficients |-> pool.coefficients,
   diagonal |-> pool.diagonal]

\* std::sort of a Subset
RECURSIVE Sorted(_)
Sorted(which) ==
  IF Len(which) = 0 THEN <<>>
  ELSE LET m == CHOOSE i \in 1..Len(which) :
                  \A j \in 1..Len(which) : which[i] <= which[j]
       IN <<which[m]>>
            \o Sorted([k \in 1..(Len(which) - 1) |->
                         IF k < m THEN which[k] ELSE which[k + 1]])

\* the linearizations that has_linearization() makes available to be stored
Linearizations ==
  {[constant |-> 1, coefficients |-> <<1, 0>>, diagonal |-> TRUE],
   [constant |-> 2, coefficients |-> <<0, 1>>, diagonal |-> FALSE]}

\* lines 1270-1288, with the linearization lin of the function
InvestmentFunction_store_linearization(lin, name) ==
  /\ Running
  /\ pool_op.count < MaxPoolOps
  /\ IF name > size
     THEN /\ UNCHANGED <<linearization_constants,
                         linearization_coefficients, is_diagonal>>
          /\ pool_op' = Throw(Call("store_linearization", name))
     ELSE /\ SetPool(store(Pool, lin.constant, lin.coefficients, name,
                           lin.diagonal))
          /\ pool_op' =
               [Changed(Call("store_linearization", name)) EXCEPT
                  !.mod = C05FunctionMod("GlobalPoolAdded", <<name>>)]
  /\ UNCHANGED <<dataVars, resultVars, frameVars, histVars, last_op,
                 f_ignore_modifications, is_locked>>

\* lines 2760-2786: the first k summands are read inside the vectors of the
\* pool
RECURSIVE SummandsDefined(_, _, _)
SummandsDefined(pool, L, k) ==
  \/ k = 0
  \/ /\ SummandsDefined(pool, L, k - 1)
     /\ L[k].name <= Len(pool.constants)
     /\ LET acc == CombinedCoefficients(pool, L, k - 1)
        IN Len(acc) = 0 \/ Len(pool.coefficients[L[k].name]) = Len(acc)

\* lines 2764-2770: a multiplier is refused before its summand is read
RefusedMultiplier(pool, L) ==
  \E k \in 1..Len(L) :
    L[k].weight < -AAccMlt /\ SummandsDefined(pool, L, k - 1)

\* lines 1292-1307 and 2733-2799
InvestmentFunction_store_combination_of_linearizations(L, name) ==
  /\ Running
  /\ pool_op.count < MaxPoolOps
  /\ LET call == [Call("store_combination", name) EXCEPT !.L = L]
         added == C05FunctionMod("GlobalPoolAdded", <<name>>)
     IN IF name > size \/ Len(L) = 0 \/ RefusedMultiplier(Pool, L)
        THEN /\ UNCHANGED <<linearization_constants,
                            linearization_coefficients, is_diagonal>>
             /\ pool_op' = Throw(call)
        ELSE IF ~SummandsDefined(Pool, L, Len(L))
        THEN \/ /\ UNCHANGED <<linearization_constants,
                               linearization_coefficients, is_diagonal>>
                /\ pool_op' \in {Abort(call), Throw(Undefined(call))}
             \/ \E constant \in UndefinedValues, diagonal \in BOOLEAN :
                  /\ SetPool(store(Pool, constant, ZeroVector, name,
                                   diagonal))
                  /\ pool_op' = [Changed(Undefined(call)) EXCEPT
                                   !.mod = added]
        ELSE IF CombinationThrows(Pool, L)
        THEN /\ UNCHANGED <<linearization_constants,
                            linearization_coefficients, is_diagonal>>
             /\ pool_op' = Throw(call)
        ELSE /\ SetPool(store(Pool, CombinedConstant(Pool, L, Len(L)),
                              CombinedCoefficients(Pool, L, Len(L)), name,
                              AnyDiagonal(Pool, L)))
             /\ pool_op' = [Changed(call) EXCEPT !.mod = added]
  /\ UNCHANGED <<dataVars, resultVars, frameVars, histVars, last_op,
                 f_ignore_modifications, is_locked>>

\* lines 1311-1323 and 2803-2811
InvestmentFunction_delete_linearization(name) ==
  /\ Running
  /\ pool_op.count < MaxPoolOps
  /\ IF name > size
     THEN /\ UNCHANGED <<linearization_constants,
                         linearization_coefficients, is_diagonal>>
          /\ pool_op' = Throw(Call("delete_linearization", name))
     ELSE /\ SetPool(delete_linearization(Pool, name))
          /\ pool_op' =
               [Changed(Call("delete_linearization", name)) EXCEPT
                  !.mod = C05FunctionMod("GlobalPoolRemoved", <<name>>)]
  /\ UNCHANGED <<dataVars, resultVars, frameVars, histVars, last_op,
                 f_ignore_modifications, is_locked>>

\* lines 1327-1339 and 2815-2834; an empty which means all linearizations
InvestmentFunction_delete_linearizations(which, ordered) ==
  /\ Running
  /\ pool_op.count < MaxPoolOps
  /\ LET sorted == IF ordered THEN which ELSE Sorted(which)
         names == IF Len(which) = 0 THEN [k \in 1..size |-> k] ELSE sorted
         call == [Call("delete_linearizations", 0) EXCEPT !.which = which]
     IN IF Len(sorted) > 0 /\ sorted[Len(sorted)] > size
        THEN /\ UNCHANGED <<linearization_constants,
                            linearization_coefficients, is_diagonal>>
             /\ pool_op' = Throw(call)
        ELSE /\ SetPool(delete_linearizations(Pool, names, Len(names)))
             /\ pool_op' =
                  [Changed(call) EXCEPT
                     !.mod = C05FunctionMod("GlobalPoolRemoved", sorted)]
  /\ UNCHANGED <<dataVars, resultVars, frameVars, histVars, last_op,
                 f_ignore_modifications, is_locked>>

\* lines 2579-2588
send_nuclear_modification ==
  /\ Running
  /\ pool_op.count < MaxPoolOps
  /\ SetPool(GlobalPool_invalidate(Pool))
  /\ f_blocks_are_updated' = FALSE
  /\ pool_op' = [Changed(Call("send_nuclear_modification", 0)) EXCEPT
                   !.mod = IF pool_op.observer
                           THEN [kind |-> "NaNshift", names |-> <<>>]
                           ELSE NoMod]
  /\ UNCHANGED <<dataVars, frameVars, histVars, last_op,
                 f_ignore_modifications, is_locked,
                 f_status, f_value, f_has_value,
                 f_has_diagonal_linearization,
                 f_diagonal_linearization_required, f_violated_constraint,
                 v_linearization>>

\* lines 475-495: set_par( intGPMaxSz , value ); which is built from the
\* size of the pool after the resize
set_par_GPMaxSz(value) ==
  /\ Running
  /\ pool_op.count < MaxPoolOps
  /\ LET call == Call("set_par_GPMaxSz", value)
     IN IF value < 0
        THEN /\ UNCHANGED <<linearization_constants,
                            linearization_coefficients, is_diagonal>>
             /\ pool_op' = Throw(call)
        ELSE LET old_size == size
                 resized == resize(Pool, value)
                 which == [k \in 1..(Len(resized.constants) - value) |->
                             value + k]
             IN /\ SetPool(resized)
                /\ pool_op' =
                     [Changed(call) EXCEPT
                        !.mod = IF pool_op.observer /\ value < old_size
                                THEN [kind |-> "GlobalPoolRemoved",
                                      names |-> which]
                                ELSE NoMod]
  /\ UNCHANGED <<dataVars, resultVars, frameVars, histVars, last_op,
                 f_ignore_modifications, is_locked>>

\* lines 1457-1498 and InvestmentFunction.h lines 1834-1841, for a name of
\* the pool
get_linearization_constant_of(name) ==
  /\ Running
  /\ pool_op' = IF name > size
                THEN Throw(Call("get_linearization_constant", name))
                ELSE [Call("get_linearization_constant", name) EXCEPT
                        !.data = <<linearization_constants[name]>>]
  /\ UNCHANGED <<dataVars, resultVars, frameVars, histVars, last_op,
                 f_ignore_modifications, is_locked,
                 linearization_constants, linearization_coefficients,
                 is_diagonal>>

\* the entries of the linearization name that a read touches are inside
\* the vectors of the pool
ReadDefined(name, indices) ==
  /\ name <= size
  /\ \A i \in indices : i <= Len(linearization_coefficients[name])

\* lines 1343-1396 and 3043-3056: the dense and the sparse read of the
\* Range [ first , second ) of the coefficients of the linearization name
get_linearization_coefficients_range(first, second, name) ==
  /\ Running
  /\ LET last == IF second < NumVars THEN second ELSE NumVars
         indices == (first + 1)..last
         call == [Call("get_linearization_coefficients_range", name)
                    EXCEPT !.which = <<first, second>>]
     IN IF last <= first
        THEN pool_op' = call
        ELSE IF ReadDefined(name, indices)
        THEN pool_op' =
               [call EXCEPT !.data =
                  [k \in 1..(last - first) |->
                     linearization_coefficients[name][first + k]]]
        ELSE \/ pool_op' = Abort(call)
             \/ \E g \in UndefinedValues :
                  pool_op' = [Undefined(call) EXCEPT !.data =
                                [k \in 1..(last - first) |-> g]]
  /\ UNCHANGED <<dataVars, resultVars, frameVars, histVars, last_op,
                 f_ignore_modifications, is_locked,
                 linearization_constants, linearization_coefficients,
                 is_diagonal>>

\* lines 1400-1453 and 3060-3074: the dense and the sparse read of a
\* Subset of the coefficients of the linearization name
get_linearization_coefficients_subset(subset, name) ==
  /\ Running
  /\ LET indices == {subset[k] : k \in 1..Len(subset)}
         call == [Call("get_linearization_coefficients_subset", name)
                    EXCEPT !.which = subset]
     IN IF ReadDefined(name, indices)
        THEN pool_op' =
               [call EXCEPT !.data =
                  [k \in 1..Len(subset) |->
                     linearization_coefficients[name][subset[k]]]]
        ELSE \/ pool_op' = Abort(call)
             \/ \E g \in UndefinedValues :
                  pool_op' = [Undefined(call) EXCEPT !.data =
                                [k \in 1..Len(subset) |-> g]]
  /\ UNCHANGED <<dataVars, resultVars, frameVars, histVars, last_op,
                 f_ignore_modifications, is_locked,
                 linearization_constants, linearization_coefficients,
                 is_diagonal>>

\* the arguments of the operations
Multipliers == {-1, 0, 1}
SummandNames == {1, 2, size + 1}
LinearCombinations ==
  {<<>>}
    \cup {<<[name |-> n, weight |-> w]>> :
            n \in SummandNames, w \in Multipliers}
    \cup {<<[name |-> 1, weight |-> v], [name |-> n, weight |-> w]>> :
            v \in {1}, n \in {2, size + 1}, w \in Multipliers}
Subsets == {<<>>, <<2, 1>>, <<1, size + 1>>}
Ranges == {<<0, 0>>, <<1, NumVars + 1>>}

InitPoolOps ==
  /\ v_Block = <<"None">>
  /\ sense = "eMin"
  /\ f_reformulated_bounds = FALSE
  /\ InitOracle
  /\ v_x = ZeroVector
  /\ linearization_constants = [n \in 1..PoolSize |-> NaN]
  /\ linearization_coefficients = [n \in 1..PoolSize |-> <<>>]
  /\ is_diagonal = [n \in 1..PoolSize |-> FALSE]
  /\ \E observer \in BOOLEAN :
       pool_op = [op |-> "none", count |-> 0, L |-> <<>>, name |-> 0,
                  which |-> <<>>,
                  constants |-> [n \in 1..PoolSize |-> NaN],
                  coefficients |-> [n \in 1..PoolSize |-> <<>>],
                  diagonal |-> [n \in 1..PoolSize |-> FALSE],
                  observer |-> observer, thrown |-> FALSE,
                  outcome |-> "ok", mod |-> NoMod, data |-> <<>>,
                  ub |-> FALSE]
  /\ investment_block = InvestmentBlock(v_lower_bound, v_upper_bound)
  /\ v_events = Handlers
  /\ driver = NoDriver

NextPoolOps ==
  \/ \E lin \in Linearizations, name \in 1..(size + 1) :
       InvestmentFunction_store_linearization(lin, name)
  \/ \E L \in LinearCombinations, name \in {size, size + 1} \ {0} :
       /\ name <= size \/ L = <<[name |-> 1, weight |-> 1]>>
       /\ InvestmentFunction_store_combination_of_linearizations(L, name)
  \/ \E name \in 1..(size + 1) :
       InvestmentFunction_delete_linearization(name)
  \/ \E which \in Subsets, ordered \in BOOLEAN :
       InvestmentFunction_delete_linearizations(which, ordered)
  \/ send_nuclear_modification
  \/ \E value \in -1..PoolSize : set_par_GPMaxSz(value)
  \/ \E name \in {1, size + 1} : get_linearization_constant_of(name)
  \/ \E range \in Ranges, name \in {1, size + 1} :
       get_linearization_coefficients_range(range[1], range[2], name)
  \/ \E subset \in {<<2, 1>>}, name \in {1, size + 1} :
       get_linearization_coefficients_subset(subset, name)

SpecPoolOps == InitPoolOps /\ [][NextPoolOps]_vars

(***************************************************************************)
(* The removal of Variables from the function.  Positions are counted from *)
(* 1; a Range is the pair first, second of the code and covers the         *)
(* positions first + 1 .. second.                                          *)
(***************************************************************************)
\* std::vector::erase of the positions first + 1 .. second
erase(x, first, second) ==
  [k \in 1..(Len(x) - (second - first)) |->
     IF k <= first THEN x[k] ELSE x[k + (second - first)]]

\* lines 801-815: the entries at the (sorted) positions indices are dropped
\* and the others are moved down
RECURSIVE compact(_, _)
compact(x, indices) ==
  IF Len(indices) = 0 THEN x
  ELSE LET last == indices[Len(indices)]
       IN compact(erase(x, last - 1, last), SubSeq(indices, 1,
                                                   Len(indices) - 1))

Removal(op, range, indices) ==
  [op |-> op, range |-> range, indices |-> indices, thrown |-> FALSE,
   mod |-> [kind |-> "none"]]

\* lines 679-706
remove_variable(i, issue) ==
  /\ pc = "idle"
  /\ IF i > Len(active.v_x)
     THEN /\ active' = [active EXCEPT !.removed =
                          [Removal("remove_variable", <<>>, <<i>>) EXCEPT
                             !.thrown = TRUE]]
          /\ UNCHANGED f_blocks_are_updated
     ELSE /\ active' =
               [active EXCEPT
                  !.v_x = erase(@, i - 1, i),
                  !.v_asset_indices = erase(@, i - 1, i),
                  !.v_asset_type = erase(@, i - 1, i),
                  !.removed =
                     [Removal("remove_variable", <<>>, <<i>>) EXCEPT
                        !.mod = IF issue
                                THEN [kind |-> "C05FunctionModVarsRngd",
                                      vars |-> <<active.v_x[i]>>,
                                      range |-> <<i - 1, i>>]
                                ELSE [kind |-> "none"]]]
          /\ f_blocks_are_updated' = FALSE
  /\ UNCHANGED <<v_x, v_Block, solver_id, sense, investment_block, v_events, driver,
                 f_reformulated_bounds,
                 f_compute_linearization, poolVars, frameVars, histVars,
                 last_op, f_ignore_modifications, is_locked,
                 f_status, f_value, f_has_value,
                 f_has_diagonal_linearization,
                 f_diagonal_linearization_required, f_violated_constraint,
                 v_linearization>>

\* lines 710-797
remove_variables_range(first, second, issue) ==
  /\ pc = "idle"
  /\ LET n == Len(active.v_x)
         last == IF second < n THEN second ELSE n
         call == Removal("remove_variables_range", <<first, second>>, <<>>)
         mod == IF issue
                THEN [kind |-> "C05FunctionModVarsRngd",
                      vars |-> SubSeq(active.v_x, first + 1, last),
                      range |-> <<first, last>>]
                ELSE [kind |-> "none"]
     IN IF last <= first
        THEN /\ active' = [active EXCEPT !.removed = call]
             /\ UNCHANGED f_blocks_are_updated
        ELSE /\ f_blocks_are_updated' = FALSE
             /\ IF first = 0 /\ last = n
                THEN active' =
                       [active EXCEPT
                          !.v_x = <<>>,
                          !.v_asset_indices = <<>>,
                          !.v_asset_type = <<>>,
                          !.v_cost = <<>>,
                          !.v_disinvestment_cost = <<>>,
                          !.removed = [call EXCEPT !.mod = mod]]
                ELSE active' =
                       [active EXCEPT
                          !.v_x = erase(@, first, last),
                          !.v_asset_indices = erase(@, first, last),
                          !.v_asset_type = erase(@, first, last),
                          !.v_cost = erase(@, first, last),
                          !.v_disinvestment_cost = erase(@, first, last),
                          !.removed = [call EXCEPT !.mod = mod]]
  /\ UNCHANGED <<v_x, v_Block, solver_id, sense, investment_block, v_events, driver,
                 f_reformulated_bounds,
                 f_compute_linearization, poolVars, frameVars, histVars,
                 last_op, f_ignore_modifications, is_locked,
                 f_status, f_value, f_has_value,
                 f_has_diagonal_linearization,
                 f_diagonal_linearization_required, f_violated_constraint,
                 v_linearization>>

\* lines 819-895; an empty Subset stands for all the Variables
remove_variables_subset(indices, ordered, issue) ==
  /\ pc = "idle"
  /\ LET n == Len(active.v_x)
         sorted == IF ordered THEN indices ELSE Sorted(indices)
         call == Removal("remove_variables_subset", <<>>, indices)
     IN IF Len(indices) = 0
        THEN IF n = 0
             THEN /\ active' = [active EXCEPT !.removed = call]
                  /\ UNCHANGED f_blocks_are_updated
             ELSE /\ active' =
                       [active EXCEPT
                          !.v_x = <<>>,
                          !.v_asset_indices = <<>>,
                          !.v_asset_type = <<>>,
                          !.v_cost = <<>>,
                          !.v_disinvestment_cost = <<>>,
                          !.removed =
                             [call EXCEPT
                                !.mod = IF issue
                                        THEN [kind |->
                                                "C05FunctionModVarsSbst",
                                              vars |-> active.v_x,
                                              indices |-> <<>>]
                                        ELSE [kind |-> "none"]]]
                  /\ f_blocks_are_updated' = FALSE
        ELSE IF sorted[Len(sorted)] > n
        THEN /\ active' = [active EXCEPT !.removed =
                             [call EXCEPT !.thrown = TRUE]]
             /\ UNCHANGED f_blocks_are_updated
        ELSE /\ active' =
                  [active EXCEPT
                     !.v_x = compact(@, sorted),
                     !.v_asset_indices = compact(@, sorted),
                     !.v_asset_type = compact(@, sorted),
                     !.v_cost = compact(@, sorted),
                     !.v_disinvestment_cost = compact(@, sorted),
                     !.removed =
                        [call EXCEPT
                           !.mod = IF issue
                                   THEN [kind |-> "C05FunctionModVarsSbst",
                                         vars |-> [k \in 1..Len(sorted) |->
                                                     active.v_x[sorted[k]]],
                                         indices |-> sorted]
                                   ELSE [kind |-> "none"]]]
             /\ f_blocks_are_updated' = FALSE
  /\ UNCHANGED <<v_x, v_Block, solver_id, sense, investment_block, v_events, driver,
                 f_reformulated_bounds,
                 f_compute_linearization, poolVars, frameVars, histVars,
                 last_op, f_ignore_modifications, is_locked,
                 f_status, f_value, f_has_value,
                 f_has_diagonal_linearization,
                 f_diagonal_linearization_required, f_violated_constraint,
                 v_linearization>>

\* the Subsets of positions, sorted or not
Positions ==
  {<<>>} \cup {<<i>> : i \in 1..(NumVars + 1)}
         \cup {<<i, j>> : i \in 1..NumVars, j \in 2..(NumVars + 1)}

IsSorted(indices) ==
  \A k \in 1..(Len(indices) - 1) : indices[k] <= indices[k + 1]

InitRemove ==
  /\ v_Block = <<"None">>
  /\ sense = "eMin"
  /\ f_reformulated_bounds = FALSE
  /\ InitOracle
  /\ InitPoolEmpty
  /\ investment_block = InvestmentBlock(v_lower_bound, v_upper_bound)
  /\ v_events = Handlers
  /\ driver = NoDriver

NextRemove ==
  \/ \E i \in 1..(NumVars + 1), issue \in BOOLEAN : remove_variable(i, issue)
  \/ \E first \in 0..NumVars, second \in 0..(NumVars + 1),
        issue \in BOOLEAN :
       remove_variables_range(first, second, issue)
  \/ \E indices \in Positions, ordered \in BOOLEAN, issue \in BOOLEAN :
       /\ ordered => IsSorted(indices)
       /\ remove_variables_subset(indices, ordered, issue)

SpecRemove == InitRemove /\ [][NextRemove]_vars

(***************************************************************************)
(* The InvestmentBlock: its bound constraints and its feasibility check.   *)
(* v_x holds the values of the ColVariable of the InvestmentBlock.         *)
(***************************************************************************)
\* InvestmentBlock.h lines 351-393
set_variable_values(x) ==
  /\ pc = "idle"
  /\ v_x' = x
  /\ investment_block' = [investment_block EXCEPT !.checked = NotChecked]
  /\ UNCHANGED <<v_Block, solver_id, sense, active, f_reformulated_bounds, v_events, driver,
                 f_compute_linearization, resultVars, poolVars, frameVars,
                 histVars, last_op, f_ignore_modifications, is_locked>>

\* lines 166-198: the BoxConstraint of Variable i
BoxConstraint(b, reformulate, i) ==
  LET shifted == /\ reformulate
                 /\ i <= Len(b.v_lower_bound)
                 /\ b.v_lower_bound[i] > -Infty
  IN [lhs |-> IF Len(b.v_lower_bound) = 0 THEN -Infty
              ELSE IF shifted THEN 0
              ELSE b.v_lower_bound[i],
      rhs |-> IF Len(b.v_upper_bound) = 0 THEN Infty
              ELSE IF shifted /\ b.v_upper_bound[i] < Infty
              THEN b.v_upper_bound[i] - b.v_lower_bound[i]
              ELSE b.v_upper_bound[i],
      relaxed |-> FALSE]

\* lines 145-203; reformulate is the value of the Configuration
generate_abstract_constraints(reformulate) ==
  /\ pc = "idle"
  /\ Len(investment_block.v_constraints) = 0
  /\ IF Len(investment_block.v_lower_bound) = 0
        /\ Len(investment_block.v_upper_bound) = 0
     THEN /\ investment_block' =
               [investment_block EXCEPT !.checked = NotChecked]
          /\ UNCHANGED f_reformulated_bounds
     ELSE /\ investment_block' =
               [investment_block EXCEPT
                  !.f_reformulate_bounds = reformulate,
                  !.v_constraints =
                     [i \in Vars |->
                        BoxConstraint(investment_block, reformulate, i)],
                  !.checked = NotChecked]
          /\ f_reformulated_bounds' = reformulate
  /\ UNCHANGED <<v_x, v_Block, solver_id, sense, active, v_events, driver,
                 f_compute_linearization, resultVars, poolVars, frameVars,
                 histVars, last_op, f_ignore_modifications, is_locked>>

\* BoxConstraint::relax on the constraint of Variable i
relax(i, relaxed) ==
  /\ pc = "idle"
  /\ i <= Len(investment_block.v_constraints)
  /\ investment_block' =
       [investment_block EXCEPT !.v_constraints[i].relaxed = relaxed,
                                !.checked = NotChecked]
  /\ UNCHANGED <<v_x, v_Block, solver_id, sense, active, v_events, driver,
                 f_reformulated_bounds,
                 f_compute_linearization, resultVars, poolVars, frameVars,
                 histVars, last_op, f_ignore_modifications, is_locked>>

\* BoxConstraint::abs_viol: how far the value is outside [ lhs , rhs ]
abs_viol(constraint, value) ==
  Max(0, Max(IF constraint.lhs > -Infty THEN constraint.lhs - value
             ELSE -Infty,
             IF constraint.rhs < Infty THEN value - constraint.rhs
             ELSE -Infty))

\* lines 251-264
AbstractFeasible(b, x, tolerance) ==
  \A i \in 1..Len(b.v_constraints) :
    \/ b.v_constraints[i].relaxed
    \/ ~(abs_viol(b.v_constraints[i], x[i]) > tolerance)

\* lines 266-278
PhysicalFeasible(b, x, tolerance) ==
  /\ \A i \in 1..Len(b.v_lower_bound) :
       b.v_lower_bound[i] > -Infty =>
         ~(x[i] < b.v_lower_bound[i] - tolerance)
  /\ \A i \in 1..Len(b.v_upper_bound) :
       b.v_upper_bound[i] < Infty =>
         ~(x[i] > b.v_upper_bound[i] + tolerance)

\* lines 237-279
BlockFeasible(b, x, useabstract, tolerance) ==
  IF Len(x) = 0 THEN TRUE
  ELSE IF useabstract /\ Len(b.v_constraints) # 0
  THEN AbstractFeasible(b, x, tolerance)
  ELSE PhysicalFeasible(b, x, tolerance)

InvestmentBlock_is_feasible(useabstract, tolerance) ==
  /\ pc = "idle"
  /\ investment_block' =
       [investment_block EXCEPT !.checked =
          [done |-> TRUE, useabstract |-> useabstract,
           tolerance |-> tolerance,
           result |-> BlockFeasible(investment_block, v_x, useabstract,
                                    tolerance)]]
  /\ UNCHANGED <<v_x, v_Block, solver_id, sense, active, v_events, driver,
                 f_reformulated_bounds,
                 f_compute_linearization, resultVars, poolVars, frameVars,
                 histVars, last_op, f_ignore_modifications, is_locked>>

\* the bounds and the tolerances of the InvestmentBlock
LowerBounds == {<<>>, v_lower_bound, <<0, 1>>}
UpperBounds == {<<>>, v_upper_bound, <<0, 1>>}
Tolerances == 0..MaxTolerance

InitBlock ==
  /\ v_Block = <<"None">>
  /\ sense = "eMin"
  /\ f_reformulated_bounds = FALSE
  /\ InitOracle
  /\ InitPoolEmpty
  /\ \E lower \in LowerBounds, upper \in UpperBounds :
       investment_block = InvestmentBlock(lower, upper)
  /\ v_x = ZeroVector
  /\ v_events = Handlers
  /\ driver = NoDriver

NextBlock ==
  \/ \E x \in [Vars -> XValues] : set_variable_values(x)
  \/ \E reformulate \in BOOLEAN : generate_abstract_constraints(reformulate)
  \/ \E i \in Vars, relaxed \in BOOLEAN : relax(i, relaxed)
  \/ \E useabstract \in BOOLEAN, tolerance \in Tolerances :
       InvestmentBlock_is_feasible(useabstract, tolerance)

SpecBlock == InitBlock /\ [][NextBlock]_vars

(***************************************************************************)
(* Properties.  AtReturn holds in the state in which compute() has just    *)
(* returned; sres and exit_path then describe that call.                   *)
(***************************************************************************)
AtReturn == pc = "idle" /\ last_op = "compute"

Evaluated == exit_path # "cached"

AllRowsHold == \A i \in Rows : ~LowerViolated(i) /\ ~UpperViolated(i)

RowViolated(i) == LowerViolated(i) \/ UpperViolated(i)

FirstViolatedRow ==
  CHOOSE i \in Rows : RowViolated(i) /\ \A j \in 1..(i - 1) : ~RowViolated(j)

FirstViolatedPair ==
  [first |-> FirstViolatedRow,
   second |-> IF LowerViolated(FirstViolatedRow) THEN "eLHS" ELSE "eRHS"]

IsFinite(v) == -Infty < v /\ v < Infty

HasDiagonal == f_has_diagonal_linearization
HasVertical == f_violated_constraint.first < Infty

\* C1 (as stated): compute returns a finite value and makes a Diagonal
\* linearization available if and only if every linear constraint holds at x
\* within the tolerance; in every other case it returns worst_value and a
\* Vertical linearization is available.
C1_FeasibilityLaw ==
  AtReturn =>
    /\ (IsFinite(get_value) /\ HasDiagonal) <=> AllRowsHold
    /\ ~(IsFinite(get_value) /\ HasDiagonal)
         => get_value = worst_value /\ HasVertical

\* C1 (amended): when a linear constraint is violated at x, compute returns
\* worst_value with status OK, a Vertical linearization is available and no
\* Diagonal one.  When all the constraints hold, a compute that ends with
\* status OK returns a finite value, no Vertical linearization is available,
\* and the compute that evaluated x makes a Diagonal linearization available
\* exactly when the computation of linearizations is enabled; a compute that
\* ends with another status returns worst_value and no linearization at all
\* is available.
C1_FeasibilityLawWhenOK ==
  AtReturn =>
    /\ ~AllRowsHold
         => /\ f_status = "kOK"
            /\ get_value = worst_value
            /\ HasVertical /\ ~HasDiagonal
    /\ AllRowsHold /\ f_status = "kOK"
         => /\ IsFinite(get_value)
            /\ ~HasVertical
            /\ exit_path = "ok" => (HasDiagonal <=> f_compute_linearization)
    /\ AllRowsHold /\ f_status # "kOK"
         => /\ get_value = worst_value
            /\ ~HasVertical /\ ~HasDiagonal

\* a compute at a point within the tolerance of row 4 that ended normally
C1_Witness ==
  /\ AtReturn /\ exit_path = "ok" /\ HasDiagonal
  /\ compute_linear_constraint_value(NumRows)
       > v_constraints_upper_bound[NumRows]

Holding(s) ==
  pc = "loop" /\ spc[s] \in {"solve", "update", "finish", "release"}

\* C3: during the loop over the scenarios, no two scenarios are both between
\* their lock_sub_block and their unlock_sub_block of the same sub-Block, and
\* the sub-Block that a scenario holds is marked locked.
C3_SlotExclusive ==
  \A s \in Scenarios :
    Holding(s) =>
      /\ sres[s].slot \in 1..Len(is_locked)
      /\ is_locked[sres[s].slot]
      /\ \A t \in Scenarios \ {s} :
           Holding(t) => sres[t].slot # sres[s].slot

\* a scenario waits for the only sub-Block while another scenario holds it
C3_Witness ==
  \E s, t \in Scenarios :
    /\ Holding(s) /\ pc = "loop" /\ spc[t] = "sleep"
    /\ Len(v_Block) = 1

\* C6: when compute returns, on any path, no sub-Block is marked locked.
C6_NoSlotLockedAtReturn ==
  AtReturn => \A i \in 1..Len(is_locked) : ~is_locked[i]

\* compute returns after an inner solver failed in one scenario and the
\* update of the linearization raised an exception in another
C6_Witness ==
  /\ AtReturn
  /\ \E s \in Scenarios : sres[s].threw
  /\ \E s \in Scenarios : sres[s].solved /\ ~sres[s].has

\* C7: if the inner solver of at least one scenario ends without a primal
\* solution, compute returns status kError and get_value is worst_value.
C7_NoSolutionIsError ==
  AtReturn /\ (\E s \in Scenarios : sres[s].solved /\ ~sres[s].has)
    => f_status = "kError" /\ get_value = worst_value

\* one scenario succeeded and finished, another ended without a solution
C7_Witness ==
  /\ AtReturn
  /\ \E s, t \in Scenarios :
       /\ sres[s].solved /\ ~sres[s].has
       /\ sres[t].solved /\ sres[t].has /\ ~sres[t].threw

\* C8: when all the scenarios succeed, the value published minus the linear
\* term is (1/S) times the sum of the values of the scenarios, and each
\* component of the linearization minus the linear slope is (1/S) times the
\* sum of the gradients of the scenarios, whatever the number of sub-Blocks
\* and the order in which the scenarios ran.
C8_Expectation ==
  AtReturn /\ exit_path = "ok" =>
    /\ NumScenarios * (f_value - SumTo([i \in Vars |-> LinearValue(i)],
                                       NumVars))
         = SumTo([s \in Scenarios |-> sres[s].val], NumScenarios)
    /\ f_compute_linearization =>
         \A i \in Vars :
           NumScenarios * (v_linearization[i] - LinearSlope(i))
             = SumTo([s \in Scenarios |-> sres[s].grad[i]], NumScenarios)

\* the scenarios shared one sub-Block and had different values
C8_Witness ==
  /\ AtReturn /\ exit_path = "ok" /\ Len(v_Block) = 1
  /\ f_compute_linearization
  /\ \E s, t \in Scenarios : sres[s].val # sres[t].val

\* the external point of the internal point v_x
ExternalPoint ==
  [i \in Vars |-> VarValue(v_x, f_reformulated_bounds, i, FALSE)]

CutIsRead ==
  /\ pc = "idle" /\ last_op = "has_linearization"
  /\ LinearizationAvailable
  /\ f_reformulated_bounds

ConstantWithoutReformulation ==
  LinearizationConstant(ExternalPoint, FALSE,
                        f_diagonal_linearization_required, f_value,
                        v_linearization, f_violated_constraint)

\* the shift of the constant: the coefficients of the cut times the finite
\* lower bounds
ConstantShift ==
  SumTo([j \in Vars |->
           IF j <= Len(v_lower_bound) /\ v_lower_bound[j] > -Infty
           THEN v_linearization[j] * v_lower_bound[j]
           ELSE 0], NumVars)

\* C9 (as stated): with reformulated bounds, the constant of a cut computed
\* at the internal point x' equals the constant of the cut computed without
\* reformulation at the external point x = x' + lower_bound.
C9_SameConstant ==
  CutIsRead => get_linearization_constant = ConstantWithoutReformulation

\* C9 (amended): with reformulated bounds, the constant of a cut (diagonal or
\* vertical) computed at the internal point x' equals the constant of the
\* cut computed without reformulation at the external point
\* x = x' + lower_bound plus the sum, over the variables with a finite lower
\* bound, of the coefficient of the cut times the lower bound.
C9_ShiftedConstant ==
  CutIsRead =>
    get_linearization_constant = ConstantWithoutReformulation + ConstantShift

\* a diagonal cut whose constant is shifted
C9_Witness ==
  /\ CutIsRead /\ f_diagonal_linearization_required
  /\ ConstantShift # 0

WeightedCoefficient(j) ==
  SumTo([k \in 1..Len(pool_op.L) |->
           pool_op.L[k].weight
             * pool_op.coefficients[pool_op.L[k].name][j]],
        Len(pool_op.L))

WeightedConstant ==
  SumTo([k \in 1..Len(pool_op.L) |->
           pool_op.L[k].weight * pool_op.constants[pool_op.L[k].name]],
        Len(pool_op.L))

\* C2: after a successful combination of L stored at name, every coefficient
\* read at name is the sum over the summands of L of the weight times the
\* coefficient that was stored at the name of the summand, and the constant
\* read at name is the sum of the weights times the constants.
C2_CompositionLaw ==
  pool_op.op = "combine" =>
    /\ linearization_constants[pool_op.name] = WeightedConstant
    /\ Len(linearization_coefficients[pool_op.name]) = NumVars
    /\ \A j \in Vars :
         linearization_coefficients[pool_op.name][j] = WeightedCoefficient(j)

\* C4: when compute returns, on every path, every inner solver has the
\* identity it had before the call, every Block that compute locked is
\* unlocked and the Blocks that the caller owned are still owned.
C4_LocksAndIdentitiesRestored ==
  AtReturn =>
    /\ \A i \in BlockIdx : solver_id[i] = "Solver"
    /\ v_Block = pre_owner

\* C5: a Modification that arrives while compute is running is ignored, and
\* a Modification that arrives when no compute is running, whatever the
\* outcome of the computes before it, invalidates every linearization of the
\* pool and makes the next compute evaluate again.
C5_ModificationInvalidates ==
  /\ ComputeIsCalling => f_ignore_modifications
  /\ pc = "idle" /\ last_op = "mod_idle"
       => /\ \A n \in 1..PoolSize : linearization_constants[n] = NaN
          /\ ~f_blocks_are_updated

VerticalIsRead ==
  /\ pc = "idle" /\ last_op = "has_linearization"
  /\ ~f_diagonal_linearization_required
  /\ HasVertical

\* s_j: the lower bound of variable j if the bounds are reformulated and the
\* bound is finite, and 0 otherwise
BoundShift(j) ==
  IF f_reformulated_bounds /\ j <= Len(v_lower_bound)
     /\ v_lower_bound[j] > -Infty
  THEN v_lower_bound[j]
  ELSE 0

RowShift(i) == SumTo([j \in Vars |-> v_A[i][j] * BoundShift(j)], NumVars)

\* C11: the vertical linearization of the recorded violated (row i, side) has
\* coefficients -a_i and constant l_i - sum_j a_ij*s_j when the lower side
\* is violated, and coefficients +a_i and constant sum_j a_ij*s_j - u_i when
\* the upper side is violated.
C11_VerticalLinearization ==
  VerticalIsRead =>
    LET i == f_violated_constraint.first
    IN IF f_violated_constraint.second = "eLHS"
       THEN /\ v_linearization = [j \in Vars |-> -v_A[i][j]]
            /\ get_linearization_constant
                 = v_constraints_lower_bound[i] - RowShift(i)
       ELSE /\ v_linearization = [j \in Vars |-> v_A[i][j]]
            /\ get_linearization_constant
                 = RowShift(i) - v_constraints_upper_bound[i]

\* the vertical linearization of a violated upper side, with a shift
C11_Witness ==
  /\ VerticalIsRead
  /\ f_violated_constraint.second = "eRHS"
  /\ RowShift(f_violated_constraint.first) # 0

\* the externalized value of variable i
Externalized(i) == v_x[i] + BoundShift(i)

\* the linear term of asset i and its slope, as the law states them
AssetTerm(i) ==
  IF Externalized(i) > v_installed_quantity[i]
  THEN v_cost[i] * (Externalized(i) - v_installed_quantity[i])
  ELSE v_disinvestment_cost[i] * (v_installed_quantity[i] - Externalized(i))

AssetSlope(i) ==
  IF Externalized(i) > v_installed_quantity[i]
  THEN v_cost[i]
  ELSE -v_disinvestment_cost[i]

\* C12: after a successful compute, the value is the expectation over the
\* scenarios plus, for each asset i, cost_i*(xi_i - q_i) if xi_i > q_i and
\* disinvestment_cost_i*(q_i - xi_i) otherwise, and component i of the
\* subgradient is the expectation plus cost_i if xi_i > q_i and minus
\* disinvestment_cost_i otherwise (equality included).
C12_LinearTerm ==
  AtReturn /\ exit_path = "ok" =>
    /\ NumScenarios * (f_value - SumTo([i \in Vars |-> AssetTerm(i)], NumVars))
         = SumTo([s \in Scenarios |-> sres[s].val], NumScenarios)
    /\ \A i \in Vars :
         NumScenarios * (v_linearization[i] - AssetSlope(i))
           = IF f_compute_linearization
             THEN SumTo([s \in Scenarios |-> sres[s].grad[i]], NumScenarios)
             ELSE 0

\* one asset is invested in, another is disinvested
C12_Witness ==
  /\ AtReturn /\ exit_path = "ok"
  /\ \E i, j \in Vars :
       /\ Externalized(i) > v_installed_quantity[i]
       /\ Externalized(j) < v_installed_quantity[j]

DiagonalIsAsked ==
  /\ pc = "idle" /\ last_op = "has_linearization"
  /\ f_diagonal_linearization_required

\* C13 (as stated): has_linearization( true ) returns true if and only if the
\* last compute produced a finite value, whatever the parameters.
C13_DiagonalIffFinite ==
  DiagonalIsAsked => (LinearizationAvailable <=> IsFinite(get_value))

\* C13 (amended): has_linearization( true ) returns true only if the last
\* compute produced a finite value; asked about a compute that evaluated the
\* point, it returns true if and only if that compute produced a finite
\* value and the computation of linearizations was enabled.
C13_DiagonalIffFiniteAndEnabled ==
  DiagonalIsAsked =>
    /\ LinearizationAvailable => IsFinite(get_value)
    /\ exit_path \in {"ok", "infeasible", "lockfail", "updexc", "interrupt"}
         => (LinearizationAvailable
               <=> IsFinite(get_value) /\ f_compute_linearization)

\* a finite value was computed without linearization, and the answer is no
C13_Witness ==
  /\ DiagonalIsAsked /\ exit_path = "ok"
  /\ ~f_compute_linearization /\ ~LinearizationAvailable

(***************************************************************************)
(* Properties of the operations on the global pool (SpecPoolOps).          *)
(***************************************************************************)
\* no operation so far has read outside of a vector of the pool
DefinedSoFar == ~pool_op.ub

PoolBefore == [constants |-> pool_op.constants,
               coefficients |-> pool_op.coefficients,
               diagonal |-> pool_op.diagonal]

CombinationIsCalled == pool_op.op = "store_combination"

ValidNames ==
  /\ pool_op.name \in 1..Len(pool_op.constants)
  /\ \A k \in 1..Len(pool_op.L) :
       pool_op.L[k].name \in 1..Len(pool_op.constants)

SummandsPresent ==
  \A k \in 1..Len(pool_op.L) :
    is_linearization_there(PoolBefore, pool_op.L[k].name)

DiagonalSummands ==
  {k \in 1..Len(pool_op.L) : pool_op.diagonal[pool_op.L[k].name]}

RECURSIVE SumOfMultipliers(_)
SumOfMultipliers(S) ==
  IF S = {} THEN 0
  ELSE LET k == CHOOSE j \in S : TRUE
       IN pool_op.L[k].weight + SumOfMultipliers(S \ {k})

\* the multipliers break the rules of a combination, with tolerance AAccMlt
InvalidMultipliers ==
  \/ \E k \in 1..Len(pool_op.L) : pool_op.L[k].weight < -AAccMlt
  \/ /\ DiagonalSummands # {}
     /\ \/ SumOfMultipliers(DiagonalSummands)
             < 1 - AAccMlt * Len(pool_op.L)
        \/ SumOfMultipliers(DiagonalSummands)
             > 1 + AAccMlt * Len(pool_op.L)

InvalidSummand ==
  \E k \in 1..Len(pool_op.L) : pool_op.L[k].name > Len(pool_op.constants)

\* C16: a combination that names an invalid linearization (a name that is
\* not smaller than the size of the pool) throws an exception and stores
\* nothing.
C16_InvalidSummandThrows ==
  CombinationIsCalled /\ InvalidSummand =>
    /\ pool_op.thrown
    /\ Pool = PoolBefore

ReadIsCalled ==
  pool_op.op \in {"get_linearization_constant",
                  "get_linearization_coefficients_range",
                  "get_linearization_coefficients_subset"}

\* C17: reading the constant or the coefficients (by Range or by Subset) of
\* a name that is not smaller than the size of the pool fails with an
\* exception and returns no data.
C17_InvalidNameReadFails ==
  ReadIsCalled /\ pool_op.name > Len(pool_op.constants) =>
    /\ pool_op.thrown
    /\ pool_op.data = <<>>

Range(seq) == {seq[k] : k \in 1..Len(seq)}

\* the last operation added or removed entries of the pool and returned
PoolEntriesChanged ==
  /\ pool_op.outcome = "ok"
  /\ \/ pool_op.op \in {"store_linearization", "store_combination",
                        "delete_linearization", "delete_linearizations"}
     \/ /\ pool_op.op = "set_par_GPMaxSz"
        /\ pool_op.name < Len(pool_op.constants)

\* the names that the last operation added or removed; an empty list given
\* to delete_linearizations stands for every linearization
NamesChanged ==
  CASE pool_op.op = "delete_linearizations" -> Range(pool_op.which)
    [] pool_op.op = "set_par_GPMaxSz" ->
         (pool_op.name + 1)..Len(pool_op.constants)
    [] OTHER -> {pool_op.name}

KindOfChange ==
  IF pool_op.op \in {"store_linearization", "store_combination"}
  THEN "GlobalPoolAdded"
  ELSE "GlobalPoolRemoved"

\* C18: with an Observer registered, every operation of the function that
\* adds or removes entries of the pool issues one GlobalPoolAdded or
\* GlobalPoolRemoved Modification that lists exactly the names added or
\* removed.
C18_ModificationListsNames ==
  pool_op.observer /\ PoolEntriesChanged =>
    /\ pool_op.mod.kind = KindOfChange
    /\ Range(pool_op.mod.names) = NamesChanged

(***************************************************************************)
(* Properties of the removal of Variables (SpecRemove).                    *)
(***************************************************************************)
VariablesRemoved ==
  active.removed.op # "none" /\ ~active.removed.thrown

\* C19: after any removal of Variables (one position, a Range or a Subset)
\* the vector of the Variables, the indices, types, costs and disinvestment
\* costs of the assets and the rows of the linear constraints have the same
\* length, and position by position they hold the data of the Variable
\* that was kept there.
C19_VectorsAligned ==
  VariablesRemoved =>
    LET n == Len(active.v_x)
    IN /\ Len(active.v_asset_indices) = n
       /\ Len(active.v_asset_type) = n
       /\ Len(active.v_cost) = n
       /\ Len(active.v_disinvestment_cost) = n
       /\ \A r \in 1..Len(active.v_A) : Len(active.v_A[r]) = n
       /\ \A p \in 1..n :
            LET var == active.v_x[p]
            IN /\ active.v_asset_indices[p] = v_asset_indices[var]
               /\ active.v_asset_type[p] = v_asset_type[var]
               /\ active.v_cost[p] = v_cost[var]
               /\ active.v_disinvestment_cost[p] = v_disinvestment_cost[var]
               /\ \A r \in 1..Len(active.v_A) :
                    active.v_A[r][p] = v_A[r][var]

(***************************************************************************)
(* Properties of the InvestmentBlock (SpecBlock).                          *)
(***************************************************************************)
FeasibilityChecked == investment_block.checked.done

ConstraintsGenerated == Len(investment_block.v_constraints) # 0

NoneRelaxed ==
  \A i \in 1..Len(investment_block.v_constraints) :
    ~investment_block.v_constraints[i].relaxed

\* what is_feasible returns in this state with the other value of
\* useabstract and the same tolerance
OtherAnswer ==
  BlockFeasible(investment_block, v_x,
                ~investment_block.checked.useabstract,
                investment_block.checked.tolerance)

\* C20: once the bound constraints have been generated, with or without
\* the reformulation of the bounds, and none of them is relaxed,
\* is_feasible( true ) and is_feasible( false ) give the same answer for
\* every value of the variables and every tolerance.
C20_AbstractAgreesWithPhysical ==
  FeasibilityChecked /\ ConstraintsGenerated /\ NoneRelaxed =>
    investment_block.checked.result = OtherAnswer

\* ---------------------------------------------------------------------
\* Replacement of the inner Blocks (set_inner_blocks) between computes
\* ---------------------------------------------------------------------

\* h 578-600, called with k new Blocks while no compute is running: the
\* previous Blocks are destroyed, the new ones are registered and a
\* nuclear modification is sent. is_locked is left as it is
set_inner_blocks(k) ==
  /\ pc = "idle"
  /\ v_Block' = [i \in 1..k |-> "None"]
  /\ solver_id' = [i \in 1..k |-> "Solver"]
  /\ owned' = [i \in 1..k |-> FALSE]
  /\ solver_ids' = [i \in 1..k |-> "Solver"]
  /\ linearization_constants' = invalidate(linearization_constants)
  /\ f_blocks_are_updated' = FALSE
  /\ last_op' = "set_inner_blocks"
  /\ Forget
  /\ UNCHANGED <<v_x, sense, active, investment_block, v_events, driver,
                 f_reformulated_bounds, f_compute_linearization,
                 f_status, f_value, f_has_value,
                 f_has_diagonal_linearization,
                 f_diagonal_linearization_required, f_violated_constraint,
                 v_linearization, linearization_coefficients, is_diagonal,
                 pool_op, pc, ub_saved, saved_f_ignore_modifications,
                 interrupt_loop, simulation_value, spc,
                 f_ignore_modifications, is_locked>>

InitInner ==
  /\ \E k \in 1..MaxBlocks : v_Block = [i \in 1..k |-> "None"]
  /\ sense = "eMin"
  /\ f_reformulated_bounds = FALSE
  /\ InitOracle
  /\ InitPoolEmpty
  /\ investment_block = InvestmentBlock(v_lower_bound, v_upper_bound)
  /\ v_events = Handlers
  /\ driver = NoDriver

NextInner ==
  \/ Next
  \/ \E k \in 1..MaxBlocks : set_inner_blocks(k)

SpecInner == InitInner /\ [][NextInner]_vars

\* ---------------------------------------------------------------------
\* The scenario loop under fair scheduling
\* ---------------------------------------------------------------------

\* the steps of the iteration of scenario s (lines 1066-1122): the thread
\* that runs the iteration keeps running, the inner solver returns, and
\* the sleep of lock_sub_block (lines 2633-2635) ends
ScenarioStep(s) ==
  \/ scenario_start(s)
  \/ lock_sub_block_retry(s)
  \/ \E has \in BOOLEAN : solver_compute(s, has)
  \/ release_after_exception(s)
  \/ set_interrupt_loop(s)
  \/ \E throws \in BOOLEAN, k \in 0..NumVars :
       update_linearization(s, throws, k)
  \/ scenario_finish(s)

\* every thread of the parallel region makes progress and the master
\* thread goes on after the region
Fairness ==
  /\ \A s \in Scenarios : WF_vars(ScenarioStep(s))
  /\ WF_vars(loop_end)

SpecFair == InitInner /\ [][Next]_vars /\ Fairness

\* ---------------------------------------------------------------------
\* Registration of the handlers of eBeforeTermination
\* (set_event_handler, reset_event_handler, handle_events)
\* ---------------------------------------------------------------------

MaxHandlers == 3

\* an EventHandler is a std::function< int() >: it holds either a closure
\* (a lambda, as the documentation of set_event_handler expects) or a
\* pointer to a plain function
Closures == {"h1", "h2"}
FunctionPointers == {"f1"}
EventTypes == {"eBeforeTermination", "eOther"}

\* line 532: std::function::target< int( * )() >() is a pointer to the
\* stored callable if that is a pointer to function, and null otherwise;
\* the static closure do_nothing is not a pointer to function
target(event) == IF event \in FunctionPointers THEN event ELSE "nullptr"

pop_back(events) == SubSeq(events, 1, Len(events) - 1)

EventsRunning == fired.outcome # "abort"

\* lines 529-534: after the first pop_back, the loop looks at the last
\* remaining handler and dereferences what target() returns. When that is
\* null the behaviour is undefined: the program stops, or the comparison
\* with do_nothing gives either answer
RECURSIVE KeepShortening(_)
KeepShortening(events) ==
  IF events = <<>>
  THEN {[events |-> events, outcome |-> "ok"]}
  ELSE IF target(events[Len(events)]) # "nullptr"
       THEN \* a plain function, which is not do_nothing
            {[events |-> events, outcome |-> "ok"]}
       ELSE {[events |-> events, outcome |-> "abort"],
             [events |-> events, outcome |-> "undefined"]}
            \union {[events |-> r.events,
                     outcome |-> IF r.outcome = "abort" THEN "abort"
                                 ELSE "undefined"] :
                    r \in KeepShortening(pop_back(events))}

\* h 889-904
set_event_handler(type, event) ==
  /\ EventsRunning
  /\ Len(v_events) < MaxHandlers
  /\ \A p \in fired.ids : p[1] # event
  /\ IF type # "eBeforeTermination"
     THEN /\ fired' = [fired EXCEPT !.op = "set", !.invoked = <<>>,
                                    !.thrown = TRUE]
          /\ UNCHANGED v_events
     ELSE /\ v_events' = Append(v_events, event)
          /\ fired' = [fired EXCEPT
                         !.op = "set", !.invoked = <<>>, !.thrown = FALSE,
                         !.ids = @ \union {<<event, Len(v_events)>>}]
  /\ UNCHANGED <<v_x, v_Block, solver_id, sense, active, investment_block,
                 driver,
                 f_reformulated_bounds, f_compute_linearization, resultVars,
                 poolVars, frameVars, sres, exit_path, pre_owner, pre_call,
                 last_op, f_ignore_modifications, is_locked>>

\* cpp 512-539
reset_event_handler(type, id) ==
  /\ EventsRunning
  /\ IF type # "eBeforeTermination" \/ id >= Len(v_events)
     THEN /\ fired' = [fired EXCEPT !.op = "reset", !.invoked = <<>>,
                                    !.thrown = TRUE]
          /\ UNCHANGED v_events
     ELSE IF id = Len(v_events) - 1
          THEN \E r \in KeepShortening(pop_back(v_events)) :
                 /\ v_events' = r.events
                 /\ fired' = [fired EXCEPT
                      !.op = "reset", !.invoked = <<>>, !.thrown = FALSE,
                      !.ids = {p \in @ : p[2] # id},
                      !.outcome = IF r.outcome = "ok" THEN @ ELSE r.outcome]
          ELSE /\ v_events' = [v_events EXCEPT ![id + 1] = "do_nothing"]
               /\ fired' = [fired EXCEPT
                      !.op = "reset", !.invoked = <<>>, !.thrown = FALSE,
                      !.ids = {p \in @ : p[2] # id}]
  /\ UNCHANGED <<v_x, v_Block, solver_id, sense, active, investment_block,
                 driver,
                 f_reformulated_bounds, f_compute_linearization, resultVars,
                 poolVars, frameVars, sres, exit_path, pre_owner, pre_call,
                 last_op, f_ignore_modifications, is_locked>>

\* cpp 505-508, called for eBeforeTermination
fire_events ==
  /\ EventsRunning
  /\ fired' = [fired EXCEPT !.op = "fire", !.thrown = FALSE,
                            !.invoked = handle_events(v_events)]
  /\ UNCHANGED <<dataVars, resultVars, poolVars, frameVars, sres, exit_path,
                 pre_owner, pre_call, last_op, f_ignore_modifications,
                 is_locked>>

\* cpp 91: after construction no handler is registered
InitEvents ==
  /\ v_Block = <<"None">>
  /\ sense = "eMin"
  /\ f_reformulated_bounds = FALSE
  /\ InitOracle
  /\ InitPoolEmpty
  /\ investment_block = InvestmentBlock(v_lower_bound, v_upper_bound)
  /\ v_events = <<>>
  /\ driver = NoDriver

NextEvents ==
  \/ \E type \in EventTypes, event \in Closures \union FunctionPointers :
       set_event_handler(type, event)
  \/ \E type \in EventTypes, id \in 0..MaxHandlers :
       reset_event_handler(type, id)
  \/ fire_events

SpecEvents == InitEvents /\ [][NextEvents]_vars

\* ---------------------------------------------------------------------
\* The solvers that drive the function (investment_solver.cpp,
\* sddp_solver.cpp)
\* ---------------------------------------------------------------------

\* everything but driver: the function is not touched by the steps below
functionVars ==
  <<v_Block, solver_id, sense, active, investment_block, v_events,
    f_reformulated_bounds, f_compute_linearization, f_blocks_are_updated,
    f_status, f_has_value, f_has_diagonal_linearization,
    f_diagonal_linearization_required, f_violated_constraint,
    v_linearization, poolVars, frameVars, histVars, last_op,
    f_ignore_modifications, is_locked>>

InitDriver ==
  /\ v_Block = <<"None">>
  /\ f_reformulated_bounds = TRUE
  /\ InitOracle
  /\ v_x = ZeroVector
  /\ f_value = 0
  /\ InitPoolEmpty
  /\ investment_block = InvestmentBlock(v_lower_bound, v_upper_bound)
  /\ v_events = Handlers

\* investment_solver.cpp line 153
reformulate_variable_bounds == TRUE

\* investment_solver.cpp lines 829-832 and 874-877: the value of variable
\* i with its lower bound added, if the bounds are reformulated and the
\* lower bound is finite
add_lower_bound_skipped(value, i) == value

add_lower_bound(value, i) ==
  IF reformulate_variable_bounds /\ i <= Len(v_lower_bound)
     /\ v_lower_bound[i] > -Infty
  THEN value + v_lower_bound[i]
  ELSE value

\* the values of the function that the solver meets
FunctionValues == {1, 2, Infty, -Infty}

\* lines 786-796: invest before the solver runs
NoSolution ==
  [op |-> "none", best_solution |-> <<>>,
   best_solution_value |-> worst_value, best_point |-> <<>>,
   best_solution_file |-> <<>>, printed |-> <<>>, message |-> "none"]

\* lines 798-844: the function has been computed at the point x with the
\* given value, and the handler of eBeforeTermination registered by invest
\* runs
before_termination(x, value) ==
  /\ driver.op # "invest"
  /\ v_x' = x
  /\ f_value' = value
  /\ LET solution_improved ==
           \/ sense = "eMin" /\ value < driver.best_solution_value
           \/ sense = "eMax" /\ value > driver.best_solution_value
         solution == [i \in Vars |-> add_lower_bound(x[i], i)]
     IN driver' = IF solution_improved
                  THEN [driver EXCEPT !.op = "handler",
                                      !.best_solution_value = value,
                                      !.best_point = x,
                                      !.best_solution = solution,
                                      !.best_solution_file = solution]
                  ELSE [driver EXCEPT !.op = "handler"]
  /\ UNCHANGED functionVars

\* lines 848-880: the solver has returned and invest prints the solution
invest ==
  /\ driver.op = "handler"
  /\ driver' =
       IF driver.best_solution_value = worst_value
       THEN [driver EXCEPT !.op = "invest", !.message = "No solution"]
       ELSE IF driver.best_solution_value = -worst_value
       THEN [driver EXCEPT !.op = "invest", !.message = "unbounded"]
       ELSE [driver EXCEPT
               !.op = "invest", !.message = "Solution value",
               !.printed =
                  [i \in 1..Len(driver.best_solution) |->
                     add_lower_bound(driver.best_solution[i], i)]]
  /\ UNCHANGED <<v_x, f_value, functionVars>>

InitInvest ==
  /\ sense \in {"eMin", "eMax"}
  /\ InitDriver
  /\ driver = NoSolution

NextInvest ==
  \/ \E x \in [Vars -> XValues], value \in FunctionValues :
       before_termination(x, value)
  \/ invest

SpecInvest == InitInvest /\ [][NextInvest]_vars

\* ---------------------------------------------------------------------
\* The linearization of the UnitBlocks whose capacity (kappa) is the
\* investment (InvestmentFunction.cpp 2080-2296), for one time instant
\* ---------------------------------------------------------------------

\* the data of the BatteryUnitBlock
min_power == -1
max_power == 2
min_storage == 1
max_storage == 3
max_primary_power == 1
max_secondary_power == 1

\* a group of constraints that the unit does not have is an empty array
Absent == <<>>

\* the dual values of the constraints of the unit after the solve, each
\* group being an array over the time instants
BatteryDuals ==
  [min_power_constraint : {0, 1},
   max_power_constraint : {0, -1},
   intake_bound : {Absent, <<-1>>, <<1>>},
   outtake_bound : {Absent, <<-1>>, <<1>>},
   max_intake_binary_constraint : {Absent, <<1>>},
   max_outtake_binary_constraint : {Absent, <<-1>>},
   u : {0, 1},
   storage_level_bound : {-1, 1},
   primary_reserve_bound : {Absent, <<1>>},
   secondary_reserve_bound : {Absent}]

NoDuals ==
  [min_power_constraint |-> 0, max_power_constraint |-> 0,
   intake_bound |-> Absent, outtake_bound |-> Absent,
   max_intake_binary_constraint |-> Absent,
   max_outtake_binary_constraint |-> Absent, u |-> 0,
   storage_level_bound |-> 1, primary_reserve_bound |-> Absent,
   secondary_reserve_bound |-> Absent]

UnitBlocks ==
  {[kind |-> "BatteryUnitBlock", duals |-> d] : d \in BatteryDuals}
  \union {[kind |-> k, duals |-> NoDuals] :
            k \in {"ThermalUnitBlock", "IntermittentUnitBlock",
                   "SlackUnitBlock"}}

\* lines 2158-2159
obj_sign == IF sense = "eMin" THEN -1 ELSE 1

\* lines 2080-2236: compute_kappa_linearization of a BatteryUnitBlock
compute_kappa_linearization(duals) ==
  LET power == min_power * Abs(duals.min_power_constraint)
                 - max_power * Abs(duals.max_power_constraint)
      intake ==
        IF duals.intake_bound = Absent THEN 0
        ELSE LET dual == duals.intake_bound[1]
                 bound == IF obj_sign * dual < 0 THEN max_power ELSE 0
             IN -dual * bound
      \* lines 2192-2196: nothing is done for the outtake level bounds
      outtake == 0
      intake_binary ==
        IF duals.max_intake_binary_constraint = Absent THEN 0
        ELSE -Abs(duals.max_intake_binary_constraint[1]) * duals.u * max_power
      outtake_binary ==
        IF duals.max_outtake_binary_constraint = Absent THEN 0
        ELSE (1 - duals.u) * Abs(duals.max_outtake_binary_constraint[1])
               * min_power
      storage ==
        LET dual == duals.storage_level_bound
            bound == IF obj_sign * dual > 0 THEN min_storage
                     ELSE max_storage
        IN -dual * bound
      primary ==
        IF duals.primary_reserve_bound = Absent THEN 0
        ELSE -max_primary_power * Abs(duals.primary_reserve_bound[1])
      secondary ==
        IF duals.secondary_reserve_bound = Absent THEN 0
        ELSE -max_secondary_power * Abs(duals.secondary_reserve_bound[1])
  IN power + intake + outtake + intake_binary + outtake_binary + storage
       + primary + secondary

\* lines 2240-2296, for one UnitBlock under investment, at the variable
\* var_index; scale is what compute_scale_linearization and the
\* linearization of an IntermittentUnitBlock give
update_linearization_unit_blocks(var_index, scale) ==
  /\ driver.op = "solved"
  /\ LET unit == driver.unit
         add(c) ==
           /\ v_linearization' =
                [v_linearization EXCEPT ![var_index] = @ + c]
           /\ driver' = [driver EXCEPT !.op = "update_linearization",
                                       !.contribution = c]
     IN IF unit.kind = "ThermalUnitBlock"
        THEN add(scale)
        ELSE IF unit.kind = "BatteryUnitBlock"
        THEN IF driver.f_replicate_battery
             THEN add(scale)
             ELSE add(compute_kappa_linearization(unit.duals))
        ELSE IF unit.kind = "IntermittentUnitBlock"
        THEN add(scale)
        ELSE \* unrecognized Block
             /\ driver' = [driver EXCEPT !.op = "update_linearization",
                                         !.thrown = TRUE]
             /\ UNCHANGED v_linearization
  /\ UNCHANGED <<v_x, f_value, v_Block, solver_id, sense, active,
                 investment_block, v_events, f_reformulated_bounds,
                 f_compute_linearization, f_blocks_are_updated, f_status,
                 f_has_value, f_has_diagonal_linearization,
                 f_diagonal_linearization_required, f_violated_constraint,
                 poolVars, frameVars, histVars, last_op,
                 f_ignore_modifications, is_locked>>

\* the inner solver has solved a stage whose UCBlock holds the unit
InitKappa ==
  /\ sense \in {"eMin", "eMax"}
  /\ InitDriver
  /\ \E unit \in UnitBlocks, replicate \in BOOLEAN :
       /\ unit.kind # "BatteryUnitBlock" => ~replicate
       /\ driver = [op |-> "solved", unit |-> unit,
                    f_replicate_battery |-> replicate,
                    contribution |-> 0, thrown |-> FALSE]

NextKappa ==
  \E var_index \in Vars, scale \in {0, 1} :
    update_linearization_unit_blocks(var_index, scale)

SpecKappa == InitKappa /\ [][NextKappa]_vars

\* ---------------------------------------------------------------------
\* The transfer of the state from a stage to the next one (callback of
\* investment_solver.cpp 340-555 and sddp_solver.cpp 392-604).  Values of
\* variables are in tenths: 10 is 1.0
\* ---------------------------------------------------------------------

NumStages == 3
TimeHorizon == 2

\* 0.5, the threshold of lines 419, 424, 436, 464 and 468
Half == 5

\* a nested Block of the UCBlock of a stage: its class, the number of its
\* nested Blocks, the number of generators (HydroUnitBlock), the commitment
\* over the time horizon and the shut-down variable of the last instant
\* (ThermalUnitBlock), the value at the last instant of the quantity that
\* is handed over, and the initial state that the callback sets
UnitBlock(kind, nested, generators, commitment, shut_down) ==
  [kind |-> kind, nested |-> nested, generators |-> generators,
   commitment |-> commitment, shut_down |-> shut_down, final |-> 10,
   initial |-> 0, init_updown_time |-> 0]

\* lines 342-352, 382-392 and 482-492: the dynamic_casts of an update to
\* the class kind; the update does not apply, or the two Blocks do not
\* have the same structure
NeitherIs(previous_block, block, kind) ==
  block.kind # kind /\ previous_block.kind # kind

OnlyOneIs_ignored(previous_block, block, kind) == FALSE

OnlyOneIs(previous_block, block, kind) ==
  (block.kind = kind) # (previous_block.kind = kind)

\* lines 438-439: the commitment goes one more step in the same state
Count(init_up_down_time, on) ==
  IF on THEN init_up_down_time + 1 ELSE init_up_down_time - 1

\* lines 434-440: the steps of one stage, from its last instant backward;
\* at is the instant that commitment points to
RECURSIVE WalkStage(_, _, _, _)
WalkStage(commitment, at, init_up_down_time, on) ==
  IF at = 1
  THEN [returned |-> FALSE, init_up_down_time |-> init_up_down_time]
  ELSE IF Abs(commitment[at] - commitment[at - 1]) > Half
  THEN [returned |-> TRUE, init_up_down_time |-> init_up_down_time]
  ELSE WalkStage(commitment, at - 1, Count(init_up_down_time, on), on)

\* lines 432-473: the loop over the stages before stage; s is the stage of
\* previous_unit, i the position of the unit in its UCBlock
RECURSIVE WalkBack(_, _, _, _, _)
WalkBack(uc_blocks, s, i, init_up_down_time, on) ==
  LET previous_unit == uc_blocks[s + 1][i]
      walk == WalkStage(previous_unit.commitment,
                        Len(previous_unit.commitment), init_up_down_time,
                        on)
  IN IF walk.returned \/ s = 0
     THEN walk.init_up_down_time
     ELSE LET commitment == uc_blocks[s][i].commitment
              last == commitment[Len(commitment)]
          IN IF on = (last >= Half)
             THEN WalkBack(uc_blocks, s - 1, i,
                           Count(walk.init_up_down_time, on), on)
             ELSE walk.init_up_down_time

\* lines 411-474
compute_init_up_down_time(uc_blocks, stage, i) ==
  LET previous_unit == uc_blocks[stage][i]
      commitment == previous_unit.commitment
      shutdown == previous_unit.shut_down
  IN IF shutdown # Absent /\ shutdown[1] >= Half
     THEN 0
     ELSE LET on == commitment[Len(commitment)] >= Half
          IN WalkBack(uc_blocks, stage - 1, i, IF on THEN 1 ELSE -1, on)

\* lines 340-376, 478-512 and 380-407: update_hydro_unit ||
\* update_thermal_unit || update_battery_unit for the Block at position i
UpdateUnit(uc_blocks, stage, i, simulation) ==
  LET previous_block == uc_blocks[stage][i]
      block == uc_blocks[stage + 1][i]
      throw == [thrown |-> TRUE, block |-> block]
      handed == [block EXCEPT !.initial = previous_block.final]
  IN IF ~NeitherIs(previous_block, block, "HydroUnitBlock")
     THEN IF OnlyOneIs(previous_block, block, "HydroUnitBlock")
               \/ previous_block.generators # block.generators
          THEN throw
          ELSE [thrown |-> FALSE, block |-> handed]
     ELSE IF ~NeitherIs(previous_block, block, "ThermalUnitBlock")
     THEN IF OnlyOneIs(previous_block, block, "ThermalUnitBlock")
          THEN throw
          ELSE [thrown |-> FALSE,
                block |->
                  IF simulation
                  THEN [handed EXCEPT !.init_updown_time =
                          compute_init_up_down_time(uc_blocks, stage, i)]
                  ELSE handed]
     ELSE IF ~NeitherIs(previous_block, block, "BatteryUnitBlock")
     THEN IF OnlyOneIs(previous_block, block, "BatteryUnitBlock")
          THEN throw
          ELSE [thrown |-> FALSE, block |-> handed]
     ELSE [thrown |-> FALSE, block |-> block]

\* lines 530-554: the Blocks of the two trees are visited level by level;
\* the nested Blocks of the units have no nested Blocks and no state
RECURSIVE VisitUnits(_, _, _, _)
VisitUnits(uc_blocks, stage, i, simulation) ==
  IF i > Len(uc_blocks[stage + 1])
  THEN [thrown |-> FALSE, uc_blocks |-> uc_blocks]
  ELSE IF uc_blocks[stage + 1][i].nested # uc_blocks[stage][i].nested
  THEN [thrown |-> TRUE, uc_blocks |-> uc_blocks]
  ELSE LET update == UpdateUnit(uc_blocks, stage, i, simulation)
       IN IF update.thrown
          THEN [thrown |-> TRUE, uc_blocks |-> uc_blocks]
          ELSE VisitUnits([uc_blocks EXCEPT ![stage + 1][i] = update.block],
                          stage, i + 1, simulation)

\* lines 516-555: callback( sddp_block , stage ), called before the stage
\* is solved
callback(stage) ==
  /\ driver.op = "solved"
  /\ driver' =
       IF stage = 0
       THEN [driver EXCEPT !.op = "callback", !.stage = stage]
       ELSE IF Len(driver.uc_blocks[stage + 1])
                 # Len(driver.uc_blocks[stage])
       THEN [driver EXCEPT !.op = "callback", !.stage = stage,
                           !.thrown = TRUE]
       ELSE LET visit == VisitUnits(driver.uc_blocks, stage, 1,
                                    driver.simulation)
            IN [driver EXCEPT !.op = "callback", !.stage = stage,
                              !.thrown = visit.thrown,
                              !.uc_blocks = visit.uc_blocks]
  /\ UNCHANGED <<v_x, f_value, functionVars>>

NoCommitment == <<>>

\* the nested Blocks that the UCBlocks are made of
Units ==
  {UnitBlock("HydroUnitBlock", 0, g, NoCommitment, Absent) : g \in {1, 2}}
  \union
  {UnitBlock(kind, 0, 0, NoCommitment, Absent) :
     kind \in {"ThermalUnitBlock", "BatteryUnitBlock",
               "IntermittentUnitBlock", "SlackUnitBlock"}}
  \union {UnitBlock("IntermittentUnitBlock", 1, 0, NoCommitment, Absent)}

UCBlocks == {<<u>> : u \in Units} \union {<<u, v>> : u \in Units, v \in Units}

\* two consecutive stages have been built, the first one has been solved
InitTransfer ==
  /\ sense = "eMin"
  /\ InitDriver
  /\ \E previous_uc_block \in UCBlocks, uc_block \in UCBlocks :
       driver = [op |-> "solved", stage |-> 0, simulation |-> FALSE,
                 uc_blocks |-> <<previous_uc_block, uc_block>>,
                 built |-> <<previous_uc_block, uc_block>>,
                 thrown |-> FALSE]

NextTransfer == \E stage \in 0..1 : callback(stage)

SpecTransfer == InitTransfer /\ [][NextTransfer]_vars

\* the values of a commitment variable in the solution of the continuous
\* relaxation (investment_solver.cpp line 148)
CommitmentValues == {0, 4, 6, 10}

ThermalUnits ==
  {UnitBlock("ThermalUnitBlock", 0, 0, commitment, shut_down) :
     commitment \in [1..TimeHorizon -> CommitmentValues],
     shut_down \in {Absent}}

\* a single scenario is simulated (lines 494-502): every stage holds one
\* ThermalUnitBlock, and the stages before the one of the callback have
\* been solved
InitUpDown ==
  /\ sense = "eMin"
  /\ InitDriver
  /\ \E units \in [1..NumStages -> ThermalUnits],
        shut_down \in {Absent, <<0>>, <<10>>} :
       LET uc_blocks ==
             [s \in 1..NumStages |->
                <<[units[s] EXCEPT !.shut_down = shut_down]>>]
       IN driver = [op |-> "solved", stage |-> 0, simulation |-> TRUE,
                    uc_blocks |-> uc_blocks, built |-> uc_blocks,
                    thrown |-> FALSE]

NextUpDown == \E stage \in 0..(NumStages - 1) : callback(stage)

SpecUpDown == InitUpDown /\ [][NextUpDown]_vars

\* ---------------------------------------------------------------------
\* Repeated calls of compute
\* ---------------------------------------------------------------------

\* a call of compute has returned that directly followed another call of
\* compute, with no variable changed and no Modification in between
RepeatedCall == AtReturn /\ pre_call.repeat

SameAnswer ==
  /\ f_status = pre_call.f_status
  /\ f_value = pre_call.f_value

NothingRun == \A s \in Scenarios : sres[s] = NoResult

\* the previous call had brought the inner Blocks up to date
PreviousUpdated == pre_call.exit_path \in {"ok", "interrupt"}

C21_Retried ==
  /\ RepeatedCall
  /\ pre_call.exit_path = "updexc"
  /\ exit_path = "ok"

\* ---------------------------------------------------------------------
\* The handlers of eBeforeTermination
\* ---------------------------------------------------------------------

\* how many times the handler h is in the sequence of invoked handlers
TimesInvoked(invoked, h) ==
  Cardinality({i \in 1..Len(invoked) : invoked[i] = h})

Registered == {v_events[i] : i \in 1..Len(v_events)} \ {"do_nothing"}

ReturnPaths ==
  {"cached", "infeasible", "lockfail", "updexc", "interrupt", "ok"}

\* C22: every call of compute that returns, by whichever path (cached,
\* infeasible point, lock failure, error of the update, interrupted loop,
\* success), has invoked each registered handler of eBeforeTermination
\* exactly once, and the handlers saw the status and the value that the
\* call returns with
C22_HandlersFireOncePerReturn ==
  AtReturn =>
    /\ exit_path \in ReturnPaths
    /\ \A h \in Registered : TimesInvoked(fired.invoked, h) = 1
    /\ fired.status = f_status
    /\ fired.value = f_value

C22_Witness ==
  /\ AtReturn
  /\ exit_path = "updexc"
  /\ Registered = {"h1", "h2"}
  /\ fired.invoked = <<"h1", "h2">>
  /\ fired.status = "kError"

\* the handlers that were registered and not reset, with the id that
\* set_event_handler returned
LiveHandlers == {p[1] : p \in fired.ids}

\* C30: after any sequence of set_event_handler and reset_event_handler
\* for eBeforeTermination, the calls have completed, every registered
\* handler that was not reset is still at the position of its id, each
\* firing invokes it exactly once, and invokes no handler that was reset
C30_HandlersKeepIdAndFireOnce ==
  /\ fired.outcome = "ok"
  /\ \A p \in fired.ids :
       p[2] < Len(v_events) /\ v_events[p[2] + 1] = p[1]
  /\ fired.op = "fire" =>
       /\ \A h \in LiveHandlers : TimesInvoked(fired.invoked, h) = 1
       /\ \A i \in 1..Len(fired.invoked) :
            fired.invoked[i] \in LiveHandlers \union {"do_nothing"}

\* a live handler is lost: a reset of the last handler also removed the
\* handler before it
C30_LiveHandlerLost ==
  /\ fired.op = "fire"
  /\ \E h \in LiveHandlers : TimesInvoked(fired.invoked, h) = 0

\* the slots that lock_sub_block can hand out (lines 2618-2627)
SlotsHandedOut ==
  IF Len(is_locked) = 0 THEN BlockIdx ELSE 1..Len(is_locked)

\* C25: lock_sub_block only returns the index of a current inner Block, and
\* every current inner Block can be handed out, also in the computes made
\* after the inner Blocks were replaced by a set of a different size
C25_SlotsAreInnerBlocks ==
  pc = "loop" =>
    /\ \A s \in Scenarios : sres[s].slot > 0 => sres[s].slot \in BlockIdx
    /\ SlotsHandedOut = BlockIdx

\* a scenario was handed a slot that is not an inner Block
C25_SlotOutOfRange ==
  /\ pc = "loop"
  /\ \E s \in Scenarios : sres[s].slot > Len(v_Block)

\* an inner Block is never handed out although scenarios wait
C25_BlockNeverUsed ==
  /\ pc = "loop"
  /\ Len(is_locked) > 0
  /\ Len(is_locked) < Len(v_Block)
  /\ \E s \in Scenarios : spc[s] = "sleep"

\* scenario s is inside lock_sub_block and has found no free slot
Waiting(s) == pc = "loop" /\ spc[s] = "sleep"

\* C24: provided every call of an inner solver returns, every scenario
\* that tries to acquire a slot eventually obtains one, and the scenario
\* loop terminates, whatever the number of slots (at least 1)
C24_SlotObtainedAndLoopEnds ==
  /\ \A s \in Scenarios : Waiting(s) ~> (sres[s].slot > 0)
  /\ (pc = "loop") ~> (pc = "idle")

\* one slot, one scenario holds it and the other waits
C24_Witness ==
  /\ Len(v_Block) = 1
  /\ \E s, t \in Scenarios : Waiting(s) /\ spc[t] = "solve"

\* ---------------------------------------------------------------------
\* What the pool shows
\* ---------------------------------------------------------------------

\* the answers of the pool to the reads of every name: presence,
\* verticality, constant and coefficients
Reads(pool) ==
  [n \in 1..Len(pool.constants) |->
     [there |-> is_linearization_there(pool, n),
      vertical |-> is_linearization_vertical(pool, n),
      constant |-> pool.constants[n],
      coefficients |-> pool.coefficients[n]]]

\* the mapping from the names to the linearizations that they hold:
\* constant, coefficients and kind, a name with no linearization having
\* no kind
Mapping(pool) ==
  [n \in 1..Len(pool.constants) |->
     [constant |-> pool.constants[n],
      coefficients |-> pool.coefficients[n],
      kind |-> IF pool.constants[n] = NaN THEN "none"
               ELSE IF pool.diagonal[n] THEN "diagonal" ELSE "vertical"]]

\* the pools that other sequences of store and delete leave with the
\* constants and coefficients of the pool: what is left in is_diagonal
\* depends on the linearizations that were stored and deleted before
OtherPools ==
  {[constants |-> linearization_constants,
    coefficients |-> linearization_coefficients,
    diagonal |-> d] : d \in [1..size -> BOOLEAN]}

SameMapping == {q \in OtherPools : Mapping(q) = Mapping(Pool)}

\* C23: two pools that hold the same mapping from names to (constant,
\* coefficients, kind), whatever the valid sequences of store and delete
\* that produced them, give the same answers to every read (presence,
\* verticality, constant, coefficients)
C23_SameMappingSameReads ==
  \A q \in SameMapping : Reads(q) = Reads(Pool)

\* a diagonal linearization was stored and deleted: is_diagonal differs
\* from that of a pool where the name was never used, the mapping does not
C23_Witness ==
  /\ pool_op.op = "delete_linearization"
  /\ ~pool_op.thrown
  /\ ~pool_op.ub
  /\ \E n \in 1..size :
       /\ linearization_constants[n] = NaN
       /\ is_diagonal[n]
  /\ \E n \in 1..size : linearization_constants[n] # NaN
  /\ \E q \in SameMapping : q # Pool

\* ---------------------------------------------------------------------
\* The solution that invest reports
\* ---------------------------------------------------------------------

\* invest has printed a solution
SolutionPrinted == driver.op = "invest" /\ driver.message = "Solution value"

\* the best point as the user sees it: x_internal_i + lower_bound_i for
\* every finite lower bound
ExternalBestPoint ==
  [i \in Vars |->
     IF v_lower_bound[i] > -Infty
     THEN driver.best_point[i] + v_lower_bound[i]
     ELSE driver.best_point[i]]

\* C29: with reformulated bounds, the solution that invest reports at its
\* end is, for each variable, x_internal_i + lower_bound_i (for finite
\* lower bounds) of the best point: the values that the handler of the
\* best solution recorded and wrote
C29_ReportedSolutionIsExternal ==
  SolutionPrinted =>
    /\ driver.printed = ExternalBestPoint
    /\ driver.printed = driver.best_solution_file

\* the printed value of a variable with a finite lower bound is the
\* internal value plus twice the lower bound
C29_ShiftedTwice ==
  /\ SolutionPrinted
  /\ \E i \in Vars :
       /\ v_lower_bound[i] > -Infty /\ v_lower_bound[i] # 0
       /\ driver.printed[i] = driver.best_point[i] + 2 * v_lower_bound[i]
       /\ driver.best_solution_file[i]
            = driver.best_point[i] + v_lower_bound[i]

\* ---------------------------------------------------------------------
\* The outtake level bounds of a battery
\* ---------------------------------------------------------------------

\* the kappa linearization of a BatteryUnitBlock that has outtake level
\* bounds has been asked for
OuttakeEncountered ==
  /\ driver.op = "update_linearization"
  /\ driver.unit.kind = "BatteryUnitBlock"
  /\ ~driver.f_replicate_battery
  /\ driver.unit.duals.outtake_bound # Absent

\* C28: the kappa linearization of a battery unit that has outtake level
\* bounds fails (UnsupportedAssetKind) instead of contributing zero for
\* them
C28_OuttakeBoundsFail == OuttakeEncountered => driver.thrown

\* the outtake level bounds, with a dual value that is not zero, leave the
\* contribution as it is without them
C28_OuttakeContributesZero ==
  /\ OuttakeEncountered
  /\ ~driver.thrown
  /\ driver.contribution =
       compute_kappa_linearization(
         [driver.unit.duals EXCEPT !.outtake_bound = Absent])

\* ---------------------------------------------------------------------
\* C26, C27: the state handed over from a stage to the next one
\* ---------------------------------------------------------------------

CallbackDone == driver.op = "callback"

PreviousUCBlock == driver.built[driver.stage]

UCBlockOfStage == driver.built[driver.stage + 1]

UnitPositions ==
  1..(IF Len(UCBlockOfStage) < Len(PreviousUCBlock)
      THEN Len(UCBlockOfStage) ELSE Len(PreviousUCBlock))

NestedDiffer ==
  \/ Len(UCBlockOfStage) # Len(PreviousUCBlock)
  \/ \E i \in UnitPositions :
       UCBlockOfStage[i].nested # PreviousUCBlock[i].nested

KindsDiffer ==
  \E i \in UnitPositions : UCBlockOfStage[i].kind # PreviousUCBlock[i].kind

WithState == {"HydroUnitBlock", "ThermalUnitBlock", "BatteryUnitBlock"}

KindsWithStateDiffer ==
  \E i \in UnitPositions :
    /\ UCBlockOfStage[i].kind # PreviousUCBlock[i].kind
    /\ {UCBlockOfStage[i].kind, PreviousUCBlock[i].kind} \cap WithState
         # {}

\* C26: the callback of stage 0 changes nothing; the callback of a later
\* stage fails whenever the trees of the Blocks of the stage and of the
\* stage before differ in the number of nested Blocks or in the class of
\* a Block, at any position
C26_AnyMismatchFails ==
  CallbackDone =>
    IF driver.stage = 0
    THEN ~driver.thrown /\ driver.uc_blocks = driver.built
    ELSE (NestedDiffer \/ KindsDiffer) => driver.thrown

\* C26: the callback of stage 0 changes nothing; the callback of a later
\* stage fails whenever the two trees differ in the number of nested
\* Blocks at any position, or in the class of a Block at a position where
\* one of the two is a HydroUnitBlock, a ThermalUnitBlock or a
\* BatteryUnitBlock; if it fails, the trees differ in one of these ways or
\* in the number of generators of a HydroUnitBlock
C26_MismatchOfStateFails ==
  CallbackDone =>
    IF driver.stage = 0
    THEN ~driver.thrown /\ driver.uc_blocks = driver.built
    ELSE /\ (NestedDiffer \/ KindsWithStateDiffer) => driver.thrown
         /\ driver.thrown =>
              \/ NestedDiffer
              \/ KindsWithStateDiffer
              \/ \E i \in UnitPositions :
                   UCBlockOfStage[i].generators
                     # PreviousUCBlock[i].generators

C26_Witness ==
  /\ CallbackDone
  /\ driver.stage = 1
  /\ ~NestedDiffer
  /\ KindsWithStateDiffer
  /\ driver.thrown

C26_OtherKindsPass ==
  /\ CallbackDone
  /\ driver.stage = 1
  /\ KindsDiffer
  /\ ~driver.thrown

On(value) == value >= Half

\* the commitment of the unit over the stages before the one of the
\* callback, in the order of time
RECURSIVE History(_)
History(stage) ==
  IF stage = 0 THEN <<>>
  ELSE History(stage - 1) \o driver.built[stage][1].commitment

\* the number of instants, from instant k backward, that have the state of
\* the last instant
RECURSIVE SameState(_, _)
SameState(history, k) ==
  IF k = 0 \/ On(history[k]) # On(history[Len(history)])
  THEN 0
  ELSE 1 + SameState(history, k - 1)

ShutdownRecorded ==
  LET shutdown == PreviousUCBlock[1].shut_down
  IN shutdown # Absent /\ shutdown[1] >= Half

UpDownTimeSet ==
  /\ CallbackDone
  /\ driver.stage > 0
  /\ driver.simulation
  /\ ~driver.thrown

\* C27: the initial up/down time that the callback of a stage sets is 0 if
\* the unit shuts down at the last instant of the stage before; otherwise
\* it is n for a committed unit and -n for one that is not, n being the
\* number of instants, backward from that last instant down to stage 0,
\* whose commitment has the state of that instant
C27_UpDownTimeIsTheRun ==
  UpDownTimeSet =>
    LET history == History(driver.stage)
        n == SameState(history, Len(history))
    IN driver.uc_blocks[driver.stage + 1][1].init_updown_time =
         IF ShutdownRecorded THEN 0
         ELSE IF On(history[Len(history)]) THEN n ELSE 0 - n

Binary == \A k \in 1..Len(History(driver.stage)) :
            History(driver.stage)[k] \in {0, 10}

C27_UpDownTimeOfBinaryIsTheRun == Binary => C27_UpDownTimeIsTheRun

C27_RunOverTwoStages ==
  /\ UpDownTimeSet
  /\ Binary
  /\ driver.stage = 2
  /\ ~ShutdownRecorded
  /\ driver.uc_blocks[3][1].init_updown_time = 3

====
